---- MODULE Spec2Model ----
(***************************************************************************)
(* Model of the tesserarx-demo browser client: the ContentLoader (deck     *)
(* loading, manifest fallback, the localStorage read-through cache) and    *)
(* the WalletManager implementations that invalidate it.                   *)
(*                                                                         *)
(* JavaScript values are modelled as records: a string is a TLA+ string or *)
(* a sequence of string tokens where the code takes it apart (prefixes),   *)
(* undefined/null are the records Undefined/Null, an ethers BigNumber is   *)
(* the record BN(v) and its JSON image the record BNJson(v).               *)
(***************************************************************************)
EXTENDS Integers, Sequences, FiniteSets, TLC

(***************************************************************************)
(* Bounds of the model.                                                    *)
(***************************************************************************)
\* Number.MAX_SAFE_INTEGER is 2^53 - 1 and a uint256 reaches 2^256 - 1; the
\* model keeps the two widths apart at a scale TLC's integers can hold.
SafeBits == 3
UintBits == 5
\* Clock advances (Date.now() moving forward) in one behaviour.
MaxTicks == 2
\* Environment faults (rejected ledger reads, failed fetches, values that do
\* not fit a JS number, failed storage writes) in one behaviour.
MaxFaults == 1
\* ContentLoader operations started in one behaviour.
MaxCalls == 2
\* clearDeckCache calls in one behaviour.
MaxClears == 1
MAX_SAFE_INTEGER == 2^SafeBits - 1
UINT256_MAX == 2^UintBits - 1

(***************************************************************************)
(* JavaScript values.                                                      *)
(***************************************************************************)
Undefined == [js |-> "undefined"]
Null == [js |-> "null"]
Thrown == [js |-> "throw"]
\* JS null passed as a wallet address (the parameter's default value).
NULL == "null"

\* ethers.BigNumber instance and what JSON.stringify makes of it (toJSON).
BN(v) == [_isBigNumber |-> TRUE, _hex |-> v]
BNJson(v) == [type |-> "BigNumber", hex |-> v]

\* BigNumber.prototype.toNumber: throws ("overflow") beyond 53 bits.
toNumber(b) == IF b._hex > MAX_SAFE_INTEGER THEN Thrown ELSE [num |-> b._hex]

\* Wei per ether is 10^18 in ethers; the exponent is scaled like the widths.
EtherDecimals == 1
WeiPerEther == 10^EtherDecimals
\* ethers.utils.formatEther: the decimal text "<whole>.<fraction>".
formatEther(b) == <<b._hex \div WeiPerEther, ".", b._hex % WeiPerEther>>

(***************************************************************************)
(* Strings the code takes apart.                                           *)
(***************************************************************************)
\* Wallet addresses callers pass as a cache scope: a checksummed (mixed
\* case) form, the same address in lower case, and another wallet.
WalletAddresses == {"0xAbC1", "0xabc1", "0xDeF2"}
\* String.prototype.toLowerCase on those addresses.
toLowerCase(s) ==
    CASE s = "0xAbC1" -> "0xabc1"
      [] s = "0xDeF2" -> "0xdef2"
      [] OTHER -> s

CACHE_KEY_PREFIX == "tesserarx_deck_cache"
STORAGE_KEY == "tesserarx_wallet_connected"
LEGACY_STORAGE_KEY == "cpf_wallet_connected"

\* part_003 getCacheKey: a key is the sequence of the pieces the template
\* string concatenates.
getCacheKey(walletAddress) ==
    IF walletAddress # NULL /\ walletAddress # ""
    THEN <<CACHE_KEY_PREFIX, "_", toLowerCase(walletAddress)>>
    ELSE <<CACHE_KEY_PREFIX>>

\* key.startsWith(CACHE_KEY_PREFIX)
startsWithPrefix(key) == Len(key) >= 1 /\ key[1] = CACHE_KEY_PREFIX

\* Every key localStorage can hold in the model.
StorageKeys ==
    {getCacheKey(a) : a \in WalletAddresses \cup {NULL}}
        \cup {<<STORAGE_KEY>>, <<LEGACY_STORAGE_KEY>>}

\* Manifest pointers a VersionRecord can carry: empty (or absent: the code
\* only tests truthiness), the "0x" placeholder, an ipfs:// pointer and a
\* plain https URL.
EmptyURI == <<>>
\* (A pointer is the sequence of its characters.)
PlaceholderURI == <<"0", "x">>
IpfsScheme == <<"i", "p", "f", "s", ":", "/", "/">>
IpfsGateway ==
    <<"h", "t", "t", "p", "s", ":", "/", "/", "i", "p", "f", "s", ".", "i", "o",
      "/", "i", "p", "f", "s", "/">>
IpfsURI == IpfsScheme \o <<"Q", "m">>
HttpsURI == <<"h", "t", "t", "p", "s", ":", "/", "/", "x">>
ManifestURIs == {EmptyURI, PlaceholderURI, IpfsURI, HttpsURI}

\* String.prototype.startsWith and String.prototype.slice(begin).
startsWith(s, prefix) ==
    Len(s) >= Len(prefix) /\ \A i \in 1..Len(prefix) : s[i] = prefix[i]
slice(s, begin) == SubSeq(s, begin + 1, Len(s))

\* resolveURI
resolveURIKeepsScheme(uri) ==
    IF uri = EmptyURI THEN EmptyURI
    ELSE IF startsWith(uri, IpfsScheme) THEN IpfsGateway \o slice(uri, 5)
    ELSE uri
resolveURI(uri) ==
    IF uri = EmptyURI THEN EmptyURI
    ELSE IF startsWith(uri, IpfsScheme) THEN IpfsGateway \o slice(uri, 7)
    ELSE uri

(***************************************************************************)
(* Content ids and manifests.                                              *)
(***************************************************************************)
KNOWN_CONTENT_IDS == <<1, 2, 5, 6>>
\* Every content id the ledger knows (README, "Deployed Content"), and one
\* registered after that table was written.
ContentIds == {1, 2, 3, 4, 5, 6, 7}

\* loadDeck's metadataMap: metadataMap[contentId], or undefined.
\* (an absent entry is the falsy empty pointer: the code only tests truthiness)
idText(contentId) ==
    CASE contentId = 1 -> "1" [] contentId = 2 -> "2" [] contentId = 3 -> "3"
      [] contentId = 4 -> "4" [] contentId = 5 -> "5" [] contentId = 6 -> "6"
      [] OTHER -> "7"
metadataMap(contentId) ==
    IF contentId \in {1, 2, 5, 6}
    THEN <<"metadata/deck-", idText(contentId), "-manifest.json">>
    ELSE EmptyURI

\* The documents behind the pointers: the local fallback file of a content
\* id and the document its on-ledger pointer names.
FallbackManifest(id) ==
    [description |-> "fallback description",
     image |-> "fallback image",
     external_url |-> "fallback url",
     attributes |-> << [trait_type |-> "Year", value |-> "1909"],
                       [trait_type |-> "Creator", value |-> "fallback creator"],
                       [trait_type |-> "Tradition", value |-> "fallback tradition"],
                       [trait_type |-> "License", value |-> "fallback license"] >>]
RemoteManifest(id) ==
    [description |-> "remote description",
     image |-> "remote image",
     external_url |-> "remote url",
     attributes |-> << [trait_type |-> "Edition", value |-> "Legacy"],
                       [trait_type |-> "Year", value |-> "1760"],
                       [trait_type |-> "Creator", value |-> "remote creator"],
                       [trait_type |-> "Tradition", value |-> "remote tradition"],
                       [trait_type |-> "License", value |-> "remote license"] >>]

\* The document a URL serves when the fetch succeeds.
DocumentAt(uri, id) ==
    IF uri = metadataMap(id) THEN FallbackManifest(id) ELSE RemoteManifest(id)

\* JS truthiness of a manifest value (undefined and null are falsy).
Falsy(m) == m = Undefined \/ m = Null

\* getAttribute
getAttribute(manifest, traitType) ==
    IF Falsy(manifest) THEN ""
    ELSE LET hits == {i \in 1..Len(manifest.attributes) :
                        manifest.attributes[i].trait_type = traitType}
         IN IF hits = {} THEN ""
            ELSE LET first == CHOOSE i \in hits : \A j \in hits : i <= j
                 IN manifest.attributes[first].value

\* isLegacy
isLegacy(manifest) == getAttribute(manifest, "Edition") = "Legacy"

\* manifest?.field || ''
fieldOrEmpty(manifest, field) ==
    IF Falsy(manifest) THEN "" ELSE manifest[field]

\* parseDeckData: the Deck, or Thrown when a toNumber overflows.
parseDeckData(contentId, contractInfo, manifest) ==
    LET price == IF contractInfo.price = Undefined THEN BN(0) ELSE contractInfo.price
        maxSupply == toNumber(contractInfo.maxSupply)
        totalMinted ==
            IF contractInfo.currentSupply # Undefined
            THEN toNumber(contractInfo.currentSupply)
            ELSE IF contractInfo.totalMinted # Undefined
                 THEN toNumber(contractInfo.totalMinted)
                 ELSE [num |-> 0]
    IN IF maxSupply = Thrown \/ totalMinted = Thrown THEN Thrown
       ELSE [contentId |-> contentId,
             name |-> contractInfo.name,
             description |-> fieldOrEmpty(manifest, "description"),
             image |-> fieldOrEmpty(manifest, "image"),
             year |-> getAttribute(manifest, "Year"),
             creator |-> getAttribute(manifest, "Creator"),
             tradition |-> getAttribute(manifest, "Tradition"),
             license |-> getAttribute(manifest, "License"),
             maxSupply |-> maxSupply.num,
             totalMinted |-> totalMinted.num,
             price |-> formatEther(price),
             priceWei |-> price,
             free |-> IF contractInfo.isFree # Undefined
                      THEN contractInfo.isFree.bool
                      ELSE price._hex = 0,
             legacy |-> isLegacy(manifest),
             external_url |-> fieldOrEmpty(manifest, "external_url")]

\* JSON.stringify followed by JSON.parse of one Deck: every field survives
\* but priceWei, which BigNumber.toJSON turns into a plain {type, hex} object.
\* (A plain object, as a list that came out of the cache holds, is unchanged.)
jsonDeck(deck) ==
    IF "_hex" \in DOMAIN deck.priceWei
    THEN [deck EXCEPT !.priceWei = BNJson(deck.priceWei._hex)]
    ELSE deck
jsonDecks(decks) == [i \in 1..Len(decks) |-> jsonDeck(decks[i])]

(***************************************************************************)
(* State.                                                                  *)
(***************************************************************************)
VARIABLES
    variant,        \* which ContentLoader the page loaded: "scoped" (part_003)
                    \* or "legacy" (public/content-loader.js)
    localStorage,   \* window.localStorage: key -> stored text, or Absent
    now,            \* Date.now()
    ticks,          \* clock advances left
    faults,         \* environment faults left
    calls,          \* ContentLoader operations started
    clears,         \* clearDeckCache calls made
    wallet,         \* the page's WalletManager: which implementation, the
                    \* active address, and whether window.ContentLoader exists
    flow,           \* the ContentLoader operation in flight: its locals and
                    \* the await it is suspended at
    obs,            \* observations of that operation (history, no effect)
    contract        \* the page's EvmContract: its interface description and
                    \* the methods built from it

vars ==
    <<variant, localStorage, now, ticks, faults, calls, clears, wallet, flow,
      obs, contract>>

\* localStorage.getItem of a missing key, a stored text JSON.parse rejects,
\* and the text 'true' the wallet managers store.
Absent == [stored |-> "absent"]
Unparsable == [stored |-> "unparsable"]
StoredTrue == [stored |-> "true"]

(***************************************************************************)
(* Native account identifiers and their bridged EVM address.               *)
(***************************************************************************)
\* Bytes of a decoded public key (sr25519 and ed25519 keys have 32).
PublicKeyLength == 32
\* publicKey.slice(0, 20)
EvmAddressLength == 20
\* The public keys of the model's accounts.
PublicKey(k) == [i \in 1..PublicKeyLength |-> (k * 37 + i * 11) % 256]

\* Identifiers decodeAddress accepts: two SS58 addresses and the hex form of
\* the first one's key; and identifiers it throws on: the empty string, text
\* that is not base58, an address with a wrong checksum, and null.
ValidAccountIds == {"5GrwvaEF", "5FHneW46", "0xd43593c7"}
MalformedAccountIds == {"", "5Grwva0O", "5GrwvaEG", NULL}
AccountIds == ValidAccountIds \cup MalformedAccountIds
\* decodeAddress of @polkadot/util-crypto: the public key, or a throw.
decodeAddress(encoded) ==
    CASE encoded = "5GrwvaEF" -> PublicKey(1)
      [] encoded = "5FHneW46" -> PublicKey(2)
      [] encoded = "0xd43593c7" -> PublicKey(1)
      [] OTHER -> Thrown

\* u8aToHex of @polkadot/util: "0x" and two lower-case digits per byte.
HexDigits ==
    <<"0", "1", "2", "3", "4", "5", "6", "7", "8", "9", "a", "b", "c", "d", "e", "f">>
u8aToHex(bytes) ==
    [hex |-> <<"0", "x">> \o
             [i \in 1..(2 * Len(bytes)) |->
                 IF i % 2 = 1 THEN HexDigits[(bytes[(i + 1) \div 2] \div 16) + 1]
                 ELSE HexDigits[(bytes[i \div 2] % 16) + 1]]]
\* Uint8Array.prototype.slice(0, end)
sliceBytes(bytes, end) ==
    SubSeq(bytes, 1, IF Len(bytes) < end THEN Len(bytes) ELSE end)

\* substrateToEvm(substrateAddress): the hex text of the first 20 bytes of the
\* decoded key, or null when decodeAddress throws.  It reads no field of the
\* manager.
substrateToEvmOfSelected(substrateAddress) ==
    LET publicKey == decodeAddress(IF wallet.selectedAccount = Null
                                   THEN substrateAddress
                                   ELSE wallet.selectedAccount.address)
    IN IF decodeAddress(substrateAddress) = Thrown THEN Null
       ELSE u8aToHex(sliceBytes(publicKey, EvmAddressLength))
substrateToEvmRethrows(substrateAddress) ==
    LET publicKey == decodeAddress(substrateAddress)
    IN IF publicKey = Thrown THEN Thrown
       ELSE u8aToHex(sliceBytes(publicKey, EvmAddressLength))
substrateToEvm(substrateAddress) ==
    LET publicKey == decodeAddress(substrateAddress)
    IN IF publicKey = Thrown THEN Null
       ELSE u8aToHex(sliceBytes(publicKey, EvmAddressLength))

\* No EvmContract has been constructed.
NoContract == [abi |-> <<>>, methods |-> <<>>]

\* The wallet operation in flight, with what it has queried and returned.
IdleOp ==
    [op |-> "none", pc |-> "idle", arg |-> NULL, ret |-> Undefined,
     queried |-> {}, apiAtCall |-> Null, dialsAtCall |-> 0,
     managerAtCall |-> Undefined, first |-> Undefined,
     failedAt |-> "none", ethAccounts |-> Undefined,
     promise |-> Undefined, status |-> "none", block |-> 0,
     blockError |-> "none", blockEvents |-> <<>>, firstError |-> "none",
     reports |-> <<>>, transaction |-> Undefined, answers |-> Undefined,
     evmTx |-> Undefined, request |-> Undefined, via |-> "none", data |-> Undefined,
     result |-> Undefined]
\* No call of substrateToEvm seen yet for an identifier.
Unseen == [seen |-> FALSE]

\* The WalletManager implementations: src/src/wallet-manager.js ("unified"),
\* part_002 ("polkadot") and lib/wallet-persistence.js ("metamask").
WalletManagers == {"unified", "polkadot", "metamask"}
\* The fields of a new manager (api, selectedAccount, injector, evmAddress,
\* provider), the page around it (window.ethereum, window.ethers), and the
\* bookkeeping of the model: dials made, operations started, the operation
\* in flight, and the first substrateToEvm result per identifier.
NoWallet ==
    [impl |-> "unified", address |-> NULL, contentLoaderLoaded |-> TRUE,
     last |-> "none",
     api |-> Null, selectedAccount |-> Null, injector |-> Null,
     evmAddress |-> Null, provider |-> Null,
     ethereum |-> FALSE, ethers |-> TRUE,
     dials |-> 0, started |-> 0, wop |-> IdleOp,
     conv |-> [a \in AccountIds |-> Unseen]]

CACHE_TTL == 3600000

\* The cache key loadAllDecks reads and writes: part_003 line 179, and the
\* single CACHE_KEY of public/content-loader.js line 10.
cacheKeyOf(v, walletAddress) ==
    IF v = "scoped" THEN getCacheKey(walletAddress) ELSE <<CACHE_KEY_PREFIX>>

\* Date.now() - data.timestamp < CACHE_TTL
withinTTLInclusive(entry, t) == t - entry.timestamp <= CACHE_TTL
withinTTL(entry, t) == t - entry.timestamp < CACHE_TTL

\* The cache check of loadAllDecks: a hit with the decks to return, or a miss
\* (no entry, JSON.parse throws, or the entry is not within the TTL).
Miss == [hit |-> FALSE, decks |-> <<>>]
Hit(decks) == [hit |-> TRUE, decks |-> decks]
cacheLookup(useCache, cached, t) ==
    IF ~useCache THEN Miss
    ELSE IF cached = Absent THEN Miss
    ELSE IF cached = Unparsable THEN Miss
    ELSE IF withinTTL(cached, t) THEN Hit(cached.decks)
    ELSE Miss

\* The text loadAllDecks stores: JSON.stringify({decks, timestamp, walletAddress}).
cacheEntry(v, decks, t, walletAddress) ==
    IF v = "scoped"
    THEN [decks |-> jsonDecks(decks), timestamp |-> t,
          walletAddress |-> IF walletAddress # NULL /\ walletAddress # ""
                            THEN walletAddress ELSE "global"]
    ELSE [decks |-> jsonDecks(decks), timestamp |-> t]

\* clearDeckCache: part_003 removes one scope's key or every key with the
\* prefix; public/content-loader.js removes its single key whatever it is passed.
clearDeckCacheAlwaysAll(v, store, walletAddress) ==
    [k \in DOMAIN store |-> IF startsWithPrefix(k) THEN Absent ELSE store[k]]
clearDeckCache(v, store, walletAddress) ==
    IF v = "scoped"
    THEN IF walletAddress # NULL /\ walletAddress # ""
         THEN [store EXCEPT ![getCacheKey(walletAddress)] = Absent]
         ELSE [k \in DOMAIN store |->
                  IF startsWithPrefix(k) THEN Absent ELSE store[k]]
    ELSE [store EXCEPT ![<<CACHE_KEY_PREFIX>>] = Absent]

(***************************************************************************)
(* The ledger as the contract object presents it.  Each loader reads the   *)
(* fields its own comments document: part_003 the record (creator, name,   *)
(* maxSupply, totalMinted, activeVersionIndex, price), the legacy loader   *)
(* the V2.1 record (creator, name, isFree, price, ..., maxSupply,          *)
(* currentSupply).  A field the record lacks reads as undefined.           *)
(***************************************************************************)
deckName(id) == <<"deck", idText(id)>>

ContentInfo(v, id, price, isFree, maxSupply, minted) ==
    IF v = "scoped"
    THEN [name |-> deckName(id), price |-> BN(price), maxSupply |-> BN(maxSupply),
          totalMinted |-> BN(minted), isFree |-> Undefined, currentSupply |-> Undefined]
    ELSE [name |-> deckName(id), price |-> BN(price), maxSupply |-> BN(maxSupply),
          totalMinted |-> Undefined, isFree |-> [bool |-> isFree],
          currentSupply |-> BN(minted)]

\* The nominal record of a content id (README: 3 and 4 are paid, limited).
NominalInfo(v, id) ==
    IF id \in {3, 4} THEN ContentInfo(v, id, 1, FALSE, 5, 1)
    ELSE ContentInfo(v, id, 0, TRUE, 5, 0)

Rejected == [ok |-> FALSE]
Resolved(value) == [ok |-> TRUE, value |-> value]

\* What the awaited getContentInfo can settle with while decks are listed:
\* the nominal record, or, at the cost of one fault, a rejection or a record
\* whose maxSupply is the uint256 maximum ("unlimited").
ListingInfoOutcomes ==
    {Resolved(NominalInfo(variant, flow.id))}
        \cup (IF faults > 0
              THEN {Rejected,
                    Resolved(ContentInfo(variant, flow.id, 0, TRUE, UINT256_MAX, 0))}
              ELSE {})
\* What it can settle with at all.
AnyInfoOutcomes ==
    {Rejected} \cup
    {Resolved(ContentInfo(variant, flow.id, p, f, m, 0)) :
        p \in {0, 1}, f \in BOOLEAN, m \in {5, UINT256_MAX}}

VersionRecord(uri) == [manifestURI |-> uri]
ListingVersionOutcomes ==
    {Resolved(VersionRecord(IF flow.id = 1 THEN EmptyURI
                            ELSE IF flow.id = 2 THEN PlaceholderURI
                            ELSE IF flow.id = 5 THEN IpfsURI ELSE HttpsURI))}
        \cup (IF faults > 0 THEN {Rejected} ELSE {})
AnyVersionOutcomes ==
    {Rejected} \cup {Resolved(VersionRecord(u)) : u \in ManifestURIs}

\* How a fetch of a manifest can end: a JSON object, a JSON document that is
\* falsy (the body "null"), a network error, a non-success status, or a body
\* response.json() rejects.
FetchFailures == {"network", "status", "badjson"}
ListingFetchOutcomes ==
    {"document"} \cup (IF faults > 0 THEN {"status"} ELSE {})
AnyFetchOutcomes == {"document", "falsy"} \cup FetchFailures

\* balanceOf: a rejection, or a uint256 balance: zero, a small one, or one
\* beyond 53 bits.
AnyBalanceOutcomes ==
    {Rejected} \cup {Resolved(BN(b)) : b \in {0, 2, UINT256_MAX}}

\* localStorage.setItem succeeds, or throws (quota) at the cost of one fault.
WriteOutcomes == {TRUE} \cup (IF faults > 0 THEN {FALSE} ELSE {})

\* One fault is spent by every outcome but the nominal ones.
spend(isFault) == IF isFault /\ faults > 0 THEN faults - 1 ELSE faults

(***************************************************************************)
(* The ContentLoader operation in flight.                                  *)
(***************************************************************************)
IdleFlow ==
    [op |-> "none", pc |-> "idle", useCache |-> FALSE, walletAddress |-> NULL,
     userAddress |-> NULL, idx |-> 0, id |-> 0, decks |-> <<>>,
     info |-> Undefined, fetching |-> EmptyURI, line |-> 0,
     allDecks |-> <<>>, owned |-> <<>>, oidx |-> 0,
     ret |-> <<>>, deck |-> Undefined]

NoPrev == [op |-> "none", key |-> <<>>, ret |-> <<>>, entry |-> Absent]
IdleObs ==
    [reads |-> <<>>, fetches |-> <<>>, hit |-> FALSE, envFailed |-> {},
     seen |-> Absent, startedAt |-> 0, wrote |-> "none", entry |-> Absent,
     balances |-> <<>>,
     version |-> Undefined,
     last |-> "none", clearArg |-> NULL, before |-> <<>>, prev |-> NoPrev]

Running == flow.pc \notin {"idle", "done"}

\* loadAllDecks has its list: it returns it, or loadOwnedDecks goes on with it.
returnAll(f, list) ==
    IF f.op = "loadAllDecks"
    THEN [f EXCEPT !.pc = "done", !.ret = list]
    ELSE [f EXCEPT !.pc = "ownLoop", !.allDecks = list, !.oidx = 1, !.owned = <<>>]

\* loadDeck is entered for KNOWN_CONTENT_IDS[idx] and suspends at
\* await contract.getContentInfo(contentId).
issueInfo(f, i) ==
    [f EXCEPT !.pc = "awaitInfo", !.idx = i, !.id = KNOWN_CONTENT_IDS[i],
              !.info = Undefined, !.fetching = EmptyURI, !.line = 0]

\* loadDeck has settled with a deck or null: getDeckById returns it, the loop
\* of loadAllDecks pushes a non-null deck and moves on.
afterLoadDeckAbort(f, deck) ==
    IF f.op = "getDeckById" THEN [f EXCEPT !.pc = "done", !.deck = deck]
    ELSE IF deck = Null THEN [f EXCEPT !.pc = "loop", !.idx = Len(KNOWN_CONTENT_IDS) + 1]
    ELSE [f EXCEPT !.pc = "loop", !.decks = Append(@, deck), !.idx = @ + 1]
\* A loop that steps over the known id after the one just loaded.
afterLoadDeckSkipping(f, deck) ==
    IF f.op = "getDeckById" THEN [f EXCEPT !.pc = "done", !.deck = deck]
    ELSE [f EXCEPT !.pc = "loop",
                   !.decks = IF deck # Null THEN Append(@, deck) ELSE @,
                   !.idx = @ + 2]
afterLoadDeck(f, deck) ==
    IF f.op = "getDeckById"
    THEN [f EXCEPT !.pc = "done", !.deck = deck]
    ELSE [f EXCEPT !.pc = "loop",
                   !.decks = IF deck # Null THEN Append(@, deck) ELSE @,
                   !.idx = @ + 1]

\* The tail of loadDeck: parseDeckData on the fields each loader passes, any
\* throw caught and turned into null.
loadDeckParse(v, contentId, info, manifest) ==
    LET contractInfo ==
            IF v = "scoped"
            THEN [name |-> info.name, isFree |-> [bool |-> info.price._hex = 0],
                  price |-> info.price, maxSupply |-> info.maxSupply,
                  currentSupply |-> info.totalMinted, totalMinted |-> Undefined]
            ELSE [name |-> info.name, isFree |-> info.isFree,
                  price |-> info.price, maxSupply |-> info.maxSupply,
                  currentSupply |-> info.currentSupply, totalMinted |-> Undefined]
        deck == parseDeckData(contentId, contractInfo, manifest)
    IN IF deck = Thrown THEN Null ELSE deck

\* {...deck, balance}
withBalance(deck, n) ==
    [k \in DOMAIN deck \cup {"balance"} |-> IF k = "balance" THEN n ELSE deck[k]]

(***************************************************************************)
(* Operations of the ContentLoader.  An action runs the code from one      *)
(* await to the next; the environment settles the awaited promise.         *)
(***************************************************************************)
CanStart == ~Running /\ calls < MaxCalls

\* What a finished loadAllDecks(useCache = true) leaves for the next call to
\* be compared with: the list it returned and the cache entry it returned
\* from or stored (Absent when its write failed).
summaryOf(f, o) ==
    IF f.op = "loadAllDecks" /\ f.pc = "done" /\ f.useCache
    THEN [op |-> f.op, key |-> cacheKeyOf(variant, f.walletAddress), ret |-> f.ret,
          entry |-> o.entry]
    ELSE NoPrev

\* loadAllDecks up to its first await: the cache check, then either the
\* cached list or the first loadDeck.
beginLoadAll(op, useCache, walletAddress, userAddress) ==
    LET key == cacheKeyOf(variant, walletAddress)
        cached == localStorage[key]
        look == cacheLookup(useCache, cached, now)
        f0 == [IdleFlow EXCEPT !.op = op, !.useCache = useCache,
                               !.walletAddress = walletAddress,
                               !.userAddress = userAddress]
        o0 == [IdleObs EXCEPT !.hit = look.hit,
                              !.entry = IF look.hit THEN cached ELSE Absent,
                              !.seen = IF useCache THEN cached ELSE Absent,
                              !.startedAt = now,
                              !.prev = summaryOf(flow, obs)]
    IN /\ CanStart
       /\ calls' = calls + 1
       /\ IF look.hit
          THEN /\ flow' = returnAll(f0, look.decks)
               /\ obs' = [o0 EXCEPT !.last = IF op = "loadAllDecks" THEN "returned" ELSE "none"]
          ELSE /\ flow' = issueInfo(f0, 1)
               /\ obs' = [o0 EXCEPT !.reads = <<[method |-> "getContentInfo",
                                                 id |-> KNOWN_CONTENT_IDS[1]]>>]
       /\ UNCHANGED <<contract, variant, localStorage, now, ticks, faults, clears, wallet>>

\* loadAllDecks(contract, useCache, walletAddress)
loadAllDecks ==
    \E useCache \in BOOLEAN, walletAddress \in WalletAddresses \cup {NULL} :
        beginLoadAll("loadAllDecks", useCache, walletAddress, NULL)

\* loadOwnedDecks(contract, userAddress, useCache): part_003 passes useCache
\* and userAddress on; public/content-loader.js calls loadAllDecks(contract).
loadOwnedDecks ==
    \E useCache \in BOOLEAN, userAddress \in WalletAddresses :
        IF variant = "scoped"
        THEN beginLoadAll("loadOwnedDecks", useCache, userAddress, userAddress)
        ELSE /\ useCache
             /\ beginLoadAll("loadOwnedDecks", TRUE, NULL, userAddress)

\* getDeckById(contract, contentId): loadDeck up to its first await.
getDeckById ==
    \E contentId \in ContentIds :
        /\ CanStart
        /\ calls' = calls + 1
        /\ flow' = [IdleFlow EXCEPT !.op = "getDeckById", !.pc = "awaitInfo",
                                    !.id = contentId]
        /\ obs' = [IdleObs EXCEPT !.startedAt = now,
                                  !.reads = <<[method |-> "getContentInfo",
                                               id |-> contentId]>>]
        /\ UNCHANGED <<contract, variant, localStorage, now, ticks, faults, clears, wallet>>

\* The for loop of loadAllDecks resumes after await loadDeck(...): the next
\* id is loaded, or the list is cached (a throwing setItem is caught) and
\* returned.
loopNext ==
    /\ flow.pc = "loop"
    /\ IF flow.idx <= Len(KNOWN_CONTENT_IDS)
       THEN /\ flow' = issueInfo(flow, flow.idx)
            /\ obs' = [obs EXCEPT !.reads = Append(@, [method |-> "getContentInfo",
                                                       id |-> KNOWN_CONTENT_IDS[flow.idx]]),
                                  !.fetches = <<>>, !.version = Undefined]
            /\ UNCHANGED <<localStorage, faults>>
       ELSE \E stored \in (IF flow.useCache THEN WriteOutcomes ELSE {TRUE}) :
            /\ localStorage' =
                 IF flow.useCache /\ stored
                 THEN [localStorage EXCEPT
                          ![cacheKeyOf(variant, flow.walletAddress)] =
                              cacheEntry(variant, flow.decks, now, flow.walletAddress)]
                 ELSE localStorage
            /\ faults' = spend(~stored)
            /\ flow' = returnAll(flow, flow.decks)
            /\ obs' = [obs EXCEPT !.wrote = IF ~flow.useCache THEN "none"
                                            ELSE IF stored THEN "ok" ELSE "failed",
                                  !.entry = IF flow.useCache /\ stored
                                            THEN cacheEntry(variant, flow.decks, now,
                                                            flow.walletAddress)
                                            ELSE Absent,
                                  !.last = IF flow.op = "loadAllDecks" THEN "returned" ELSE "none",
                                  !.before = localStorage]
    /\ UNCHANGED <<contract, variant, now, ticks, calls, clears, wallet>>

\* await contract.getContentInfo(contentId) settles.  A rejection is caught
\* (loadDeck returns null); otherwise getActiveVersion is awaited.  part_003
\* first logs fields of info, which throws when one is undefined.
logThrows(v, info) ==
    v = "scoped" /\ (info.maxSupply = Undefined \/ info.totalMinted = Undefined
                     \/ info.price = Undefined)
contentInfoSettles(outcomes) ==
    /\ flow.pc = "awaitInfo"
    /\ \E o \in outcomes :
        /\ faults' = spend(~o.ok \/ (o.ok /\ o.value.maxSupply._hex > MAX_SAFE_INTEGER))
        /\ IF ~o.ok \/ logThrows(variant, o.value)
           THEN /\ flow' = afterLoadDeck(flow, Null)
                /\ obs' = [obs EXCEPT !.envFailed = @ \cup {flow.id},
                                      !.last = IF flow.op = "getDeckById" THEN "returned" ELSE "none"]
           ELSE /\ flow' = [flow EXCEPT !.pc = "awaitVersion", !.info = o.value]
                /\ obs' = [obs EXCEPT !.reads = Append(@, [method |-> "getActiveVersion",
                                                           id |-> flow.id])]
    /\ UNCHANGED <<contract, variant, localStorage, now, ticks, calls, clears, wallet>>

\* loadDeck has its manifest (or none): the deck is parsed and loadDeck settles.
settleDeck(o, manifest) ==
    LET deck == loadDeckParse(variant, flow.id, flow.info, manifest)
    IN /\ flow' = afterLoadDeck(flow, deck)
       /\ obs' = [o EXCEPT !.last = IF flow.op = "getDeckById" THEN "returned" ELSE "none",
                             !.envFailed =
                                 IF flow.info.maxSupply._hex > MAX_SAFE_INTEGER
                                 THEN @ \cup {flow.id} ELSE @]

\* fetchManifest(uri) is entered: fetch(resolveURI(uri)) is awaited.
issueFetch(o, uri, line) ==
    /\ flow' = [flow EXCEPT !.pc = "awaitFetch", !.fetching = uri, !.line = line]
    /\ obs' = o

\* await contract.getActiveVersion(contentId) settles: the manifest source is
\* chosen (part_003 lines 135-151).
activeVersionSettles(outcomes) ==
    /\ flow.pc = "awaitVersion"
    /\ \E o \in outcomes :
        /\ faults' = spend(~o.ok)
        /\ IF ~o.ok
           THEN /\ flow' = afterLoadDeck(flow, Null)
                /\ obs' = [obs EXCEPT !.envFailed = @ \cup {flow.id},
                                      !.last = IF flow.op = "getDeckById" THEN "returned" ELSE "none"]
           ELSE LET uri == o.value.manifestURI
                    fallbackURI == metadataMap(flow.id)
                    seen == [obs EXCEPT !.version = o.value]
                IN IF uri = EmptyURI \/ uri = PlaceholderURI
                   THEN IF fallbackURI # EmptyURI
                        THEN issueFetch(seen, fallbackURI, 140)
                        ELSE settleDeck(seen, Undefined)
                   ELSE issueFetch(seen, uri, 145)
    /\ UNCHANGED <<contract, variant, localStorage, now, ticks, calls, clears, wallet>>

\* if (!manifest && metadataMap[contentId]) after the fetch of the on-ledger
\* pointer (part_003 line 147).
shouldRetryWhatever(line, manifest, fallbackURI) ==
    line = 145 /\ fallbackURI # EmptyURI
shouldRetry(line, manifest, fallbackURI) ==
    line = 145 /\ Falsy(manifest) /\ fallbackURI # EmptyURI

\* fetchManifest settles: the parsed document, or null for a network error, a
\* non-success status or a body that is not JSON.  A falsy result of the
\* on-ledger pointer is retried once against the local fallback.
fetchManifestSettles(outcomes) ==
    /\ flow.pc = "awaitFetch"
    /\ \E o \in outcomes :
        LET manifest == IF o = "document" THEN DocumentAt(flow.fetching, flow.id)
                        ELSE Null
            logged == [obs EXCEPT !.fetches =
                          Append(@, [url |-> resolveURI(flow.fetching),
                                     line |-> flow.line, outcome |-> o])]
        IN /\ faults' = spend(o \in FetchFailures)
           /\ IF shouldRetry(flow.line, manifest, metadataMap(flow.id))
              THEN /\ flow' = [flow EXCEPT !.fetching = metadataMap(flow.id),
                                           !.line = 149]
                   /\ obs' = logged
              ELSE LET deck == loadDeckParse(variant, flow.id, flow.info, manifest)
                   IN /\ flow' = afterLoadDeck(flow, deck)
                      /\ obs' = [logged EXCEPT
                                    !.last = IF flow.op = "getDeckById" THEN "returned" ELSE "none",
                                    !.envFailed =
                                        IF flow.info.maxSupply._hex > MAX_SAFE_INTEGER
                                        THEN @ \cup {flow.id} ELSE @]
    /\ UNCHANGED <<contract, variant, localStorage, now, ticks, calls, clears, wallet>>

\* A loadOwnedDecks that stores the list it returns under the caller's key.
ownedNextWritingBack ==
    /\ flow.pc = "ownLoop"
    /\ IF flow.oidx <= Len(flow.allDecks)
       THEN /\ flow' = [flow EXCEPT !.pc = "awaitBalance"]
            /\ obs' = [obs EXCEPT !.reads = Append(@, [method |-> "balanceOf",
                                                       id |-> flow.allDecks[flow.oidx].contentId])]
            /\ UNCHANGED localStorage
       ELSE /\ flow' = [flow EXCEPT !.pc = "done", !.ret = flow.owned]
            /\ obs' = [obs EXCEPT !.last = "returned"]
            /\ localStorage' =
                 [localStorage EXCEPT
                     ![cacheKeyOf(variant, flow.walletAddress)] =
                         cacheEntry(variant, flow.owned, now, flow.walletAddress)]
    /\ UNCHANGED <<contract, variant, now, ticks, faults, calls, clears, wallet>>

\* The for loop of loadOwnedDecks: the next balanceOf is awaited, or the owned
\* list is returned.
ownedNext ==
    /\ flow.pc = "ownLoop"
    /\ IF flow.oidx <= Len(flow.allDecks)
       THEN /\ flow' = [flow EXCEPT !.pc = "awaitBalance"]
            /\ obs' = [obs EXCEPT !.reads = Append(@, [method |-> "balanceOf",
                                                       id |-> flow.allDecks[flow.oidx].contentId])]
       ELSE /\ flow' = [flow EXCEPT !.pc = "done", !.ret = flow.owned]
            /\ obs' = [obs EXCEPT !.last = "returned"]
    /\ UNCHANGED <<contract, variant, localStorage, now, ticks, faults, calls, clears, wallet>>

\* await contract.balanceOf(userAddress, deck.contentId) settles: a positive
\* balance pushes {...deck, balance: balance.toNumber()}; a rejection or a
\* throwing toNumber is caught and the deck skipped.
balanceOfSettles(outcomes) ==
    /\ flow.pc = "awaitBalance"
    /\ \E o \in outcomes :
        LET deck == flow.allDecks[flow.oidx]
            push == o.ok /\ o.value._hex > 0 /\ toNumber(o.value) # Thrown
        IN /\ faults' = spend(~o.ok \/ (o.ok /\ o.value._hex > MAX_SAFE_INTEGER))
           /\ flow' = [flow EXCEPT
                          !.pc = "ownLoop", !.oidx = @ + 1,
                          !.owned = IF push
                                    THEN Append(@, withBalance(deck, toNumber(o.value).num))
                                    ELSE @]
           /\ obs' = [obs EXCEPT !.balances =
                         Append(@, [id |-> deck.contentId, outcome |-> o])]
    /\ UNCHANGED <<contract, variant, localStorage, now, ticks, calls, clears, wallet>>

\* localStorage and the clock are read and written by an operation only in
\* its first step (the cache check) and in the step that caches the list, so
\* a clear or a clock advance is observable only between operations and just
\* before that last step; the model lets them happen there.
Observable ==
    \/ ~Running
    \/ flow.pc = "loop" /\ flow.idx > Len(KNOWN_CONTENT_IDS)

\* ContentLoader.clearDeckCache(walletAddress), whoever calls it.
ClearDeckCache ==
    \E walletAddress \in WalletAddresses \cup {NULL} :
        /\ Observable
        /\ clears < MaxClears
        /\ clears' = clears + 1
        /\ localStorage' = clearDeckCache(variant, localStorage, walletAddress)
        /\ obs' = [obs EXCEPT !.last = "clear", !.clearArg = walletAddress,
                              !.before = localStorage]
        /\ UNCHANGED <<contract, variant, now, ticks, faults, calls, wallet, flow>>

\* Time passes, half a TTL at a time: two advances age an entry to exactly
\* the TTL.
TickLength == CACHE_TTL \div 2

\* Time passes.  (Before the first operation there is no timestamp the clock
\* could be compared with, so the clock starts with it.)
Tick ==
    /\ ticks > 0
    /\ calls > 0
    /\ Observable
    /\ now' = now + TickLength
    /\ ticks' = ticks - 1
    /\ obs' = [obs EXCEPT !.last = "none"]
    /\ UNCHANGED <<contract, variant, localStorage, faults, calls, clears, wallet, flow>>

(***************************************************************************)
(* The WalletManager of the page.                                          *)
(***************************************************************************)
\* The key each implementation keeps its "was connected" flag under.
walletStorageKey(impl) ==
    IF impl = "metamask" THEN <<LEGACY_STORAGE_KEY>> ELSE <<STORAGE_KEY>>

\* connect(), its successful path: the first account becomes the active
\* wallet and the flag is stored.  (connect() is followed await by await,
\* with its failing paths, by the actions of SpecConnect.)
connect ==
    \E address \in WalletAddresses :
        /\ wallet.address = NULL
        /\ wallet' = [wallet EXCEPT !.address = address, !.last = "connect"]
        /\ localStorage' =
               [localStorage EXCEPT ![walletStorageKey(wallet.impl)] = StoredTrue]
        /\ UNCHANGED <<contract, variant, now, ticks, faults, calls, clears, flow, obs>>

\* What disconnect() leaves in localStorage: the flag is removed; only
\* src/src/wallet-manager.js goes on to clear the deck caches, and only when
\* window.ContentLoader exists.
disconnectStorage(impl, loaded, v, store) ==
    LET removed == [store EXCEPT ![walletStorageKey(impl)] = Absent]
    IN IF impl = "unified" /\ loaded
       THEN clearDeckCache(v, removed, NULL)
       ELSE removed

\* A disconnect that also drops the ledger connection.
disconnectDroppingConnection ==
    /\ wallet.address # NULL \/ wallet.selectedAccount # Null
    /\ wallet' = [wallet EXCEPT !.address = NULL, !.last = "disconnect",
                                !.selectedAccount = Null, !.injector = Null,
                                !.evmAddress = Null, !.api = Null]
    /\ localStorage' = disconnectStorage(wallet.impl, wallet.contentLoaderLoaded,
                                         variant, localStorage)
    /\ UNCHANGED <<contract, variant, now, ticks, faults, calls, clears, flow, obs>>

\* disconnect()
disconnect ==
    /\ wallet.address # NULL \/ wallet.selectedAccount # Null
    /\ wallet' = [wallet EXCEPT !.address = NULL, !.last = "disconnect",
                                !.selectedAccount = Null, !.injector = Null,
                                !.evmAddress = Null]
    /\ localStorage' = disconnectStorage(wallet.impl, wallet.contentLoaderLoaded,
                                         variant, localStorage)
    /\ UNCHANGED <<contract, variant, now, ticks, faults, calls, clears, flow, obs>>

\* A page is loaded: it includes the ContentLoader script or not, and the
\* constructor runs init(), whose autoConnect() restores the active wallet
\* when the flag is stored, or fails and removes the flag.
init ==
    /\ ~Running
    /\ \E loaded \in BOOLEAN, restored \in BOOLEAN :
        LET wasConnected == localStorage[walletStorageKey(wallet.impl)] = StoredTrue
        IN /\ wallet' = [wallet EXCEPT
                            !.contentLoaderLoaded = loaded,
                            !.address = IF wasConnected /\ restored THEN @ ELSE NULL,
                            !.last = "init"]
           /\ localStorage' =
                  IF wasConnected /\ ~restored
                  THEN [localStorage EXCEPT ![walletStorageKey(wallet.impl)] = Absent]
                  ELSE localStorage
    /\ flow' = IdleFlow
    /\ obs' = IdleObs
    /\ UNCHANGED <<contract, variant, now, ticks, faults, calls, clears>>

\* The page lists the decks for the active wallet (the global scope when no
\* wallet is connected).
loadAllDecksForWallet ==
    /\ wallet.contentLoaderLoaded
    /\ beginLoadAll("loadAllDecks", TRUE, wallet.address, NULL)

(***************************************************************************)
(* Specifications.                                                         *)
(***************************************************************************)
\* A page load: either loader, an empty localStorage or one left over from an
\* earlier visit with a damaged entry under the global deck-cache key.
InitialStores ==
    {[k \in StorageKeys |-> Absent],
     [k \in StorageKeys |-> IF k = <<CACHE_KEY_PREFIX>> THEN Unparsable ELSE Absent]}

Init ==
    /\ contract = NoContract
    /\ variant \in {"scoped", "legacy"}
    /\ localStorage \in InitialStores
    /\ now = 0
    /\ ticks = MaxTicks
    /\ faults = MaxFaults
    /\ calls = 0
    /\ clears = 0
    /\ wallet = NoWallet
    /\ flow = IdleFlow
    /\ obs = IdleObs

\* Deck listing with the cache: faults are bounded by MaxFaults.
Next ==
    \/ loadAllDecks
    \/ loopNext
    \/ contentInfoSettles(ListingInfoOutcomes)
    \/ activeVersionSettles(ListingVersionOutcomes)
    \/ fetchManifestSettles(ListingFetchOutcomes)
    \/ ClearDeckCache
    \/ Tick

Spec == Init /\ [][Next]_vars

\* Single decks by id, the environment unconstrained: any record, any
\* manifest pointer, any way a fetch can end.
NextDeck ==
    \/ getDeckById
    \/ contentInfoSettles(AnyInfoOutcomes)
    \/ activeVersionSettles(AnyVersionOutcomes)
    \/ fetchManifestSettles(AnyFetchOutcomes)

SpecDeck == Init /\ [][NextDeck]_vars

\* Owned decks: the listing as in Spec, then any balance for each deck.
NextOwned ==
    \/ loadOwnedDecks
    \/ loopNext
    \/ contentInfoSettles(ListingInfoOutcomes)
    \/ activeVersionSettles(ListingVersionOutcomes)
    \/ fetchManifestSettles(ListingFetchOutcomes)
    \/ ownedNext
    \/ balanceOfSettles(AnyBalanceOutcomes)

SpecOwned == Init /\ [][NextOwned]_vars

\* Pages with a WalletManager: any of the three implementations, pages with
\* and without the ContentLoader, a fault-free ledger.
InitWallet ==
    /\ contract = NoContract
    /\ variant \in {"scoped", "legacy"}
    /\ localStorage = [k \in StorageKeys |-> Absent]
    /\ now = 0
    /\ ticks = 0
    /\ faults = 0
    /\ calls = 0
    /\ clears = 0
    /\ wallet \in {[NoWallet EXCEPT !.impl = impl, !.contentLoaderLoaded = loaded] :
                      impl \in WalletManagers, loaded \in BOOLEAN}
    /\ flow = IdleFlow
    /\ obs = IdleObs

NextWallet ==
    \/ connect
    \/ disconnect
    \/ init
    \/ loadAllDecksForWallet
    \/ loopNext
    \/ contentInfoSettles(ListingInfoOutcomes)
    \/ activeVersionSettles(ListingVersionOutcomes)
    \/ fetchManifestSettles(ListingFetchOutcomes)

SpecWallet == InitWallet /\ [][NextWallet]_vars

(***************************************************************************)
(* Properties of deck listing and its cache (checked under Spec).          *)
(***************************************************************************)
\* loadAllDecks has just returned to its caller.
ReturnedAll == obs.last = "returned" /\ flow.op = "loadAllDecks"

\* The content ids of the getContentInfo reads in a log of ledger reads.
IsInfoRead(r) == r.method = "getContentInfo"
InfoReadIds(reads) ==
    LET infos == SelectSeq(reads, IsInfoRead)
    IN [i \in 1..Len(infos) |-> infos[i].id]
\* The content ids of a Deck list.
DeckIds(decks) == [i \in 1..Len(decks) |-> decks[i].contentId]

\* The entry a call found is the one the previous loadAllDecks(useCache=true)
\* under the same scope returned from or stored, and the call started within
\* the TTL of that entry's timestamp.
SecondCallWithinTTL ==
    /\ ReturnedAll
    /\ flow.useCache
    /\ obs.prev.op = "loadAllDecks"
    /\ obs.prev.key = cacheKeyOf(variant, flow.walletAddress)
    /\ obs.prev.entry # Absent
    /\ obs.seen = obs.prev.entry
    /\ obs.startedAt - obs.prev.entry.timestamp < CACHE_TTL

\* C1: cache idempotence.  For any wallet scope, the second of two
\* loadAllDecks(useCache=true) calls within the TTL window issues no ledger
\* read and no manifest fetch, and returns a Deck list identical to the one
\* the first call returned.
C1_CacheIdempotence ==
    SecondCallWithinTTL =>
        /\ obs.reads = <<>>
        /\ obs.fetches = <<>>
        /\ flow.ret = obs.prev.ret

\* The part of C1 the code keeps: no read, no fetch, and the list returned is
\* the first call's list as JSON carries it.
C1_UpToJson ==
    SecondCallWithinTTL =>
        /\ obs.reads = <<>>
        /\ obs.fetches = <<>>
        /\ obs.hit
        /\ jsonDecks(flow.ret) = jsonDecks(obs.prev.ret)

\* A second call within the TTL whose first call loaded decks from the ledger.
C1_Reached ==
    SecondCallWithinTTL /\ Len(obs.prev.ret) > 0 /\ obs.prev.ret # flow.ret

\* C2: cache scoping.  A load under one wallet scope stores its own entry and
\* touches no other scope's entry; clearDeckCache(W1) removes W1's entry and
\* leaves every other scope's entry and the global entry as they were, so
\* that those that produced a cache hit still do.
C2_CacheScoping ==
    variant = "scoped" =>
        /\ (obs.last = "clear" /\ obs.clearArg # NULL) =>
               /\ localStorage[getCacheKey(obs.clearArg)] = Absent
               /\ \A k \in StorageKeys \ {getCacheKey(obs.clearArg)} :
                      /\ localStorage[k] = obs.before[k]
                      /\ cacheLookup(TRUE, obs.before[k], now).hit
                             => cacheLookup(TRUE, localStorage[k], now).hit
        /\ (ReturnedAll /\ obs.wrote = "ok") =>
               /\ localStorage[getCacheKey(flow.walletAddress)] =
                      cacheEntry(variant, flow.ret, now, flow.walletAddress)
               /\ \A k \in StorageKeys \ {getCacheKey(flow.walletAddress)} :
                      localStorage[k] = obs.before[k]

\* W1's entry has just been cleared while another wallet's entry, stored by
\* an earlier load, is still a hit.
C2_Witness ==
    /\ variant = "scoped"
    /\ obs.last = "clear"
    /\ obs.clearArg = "0xAbC1"
    /\ obs.before[getCacheKey("0xAbC1")] # Absent
    /\ localStorage[getCacheKey("0xAbC1")] = Absent
    /\ cacheLookup(TRUE, localStorage[getCacheKey("0xDeF2")], now).hit

\* The entry the cache check found is expired (its age is at least the TTL)
\* or unparsable.
Stale(entry, t) ==
    \/ entry = Unparsable
    \/ entry # Absent /\ entry # Unparsable /\ t - entry.timestamp >= CACHE_TTL
ReturnedOverStale == ReturnedAll /\ flow.useCache /\ Stale(obs.seen, obs.startedAt)

\* C4: TTL expiry.  An entry whose age is at least the TTL, or an unparsable
\* entry, is treated as absent: loadAllDecks(useCache=true) does not return
\* its decks, reloads every known content id, and overwrites the entry with
\* the reloaded list and a fresh timestamp.
C4_ExpiryOverwrites ==
    ReturnedOverStale =>
        /\ ~obs.hit
        /\ InfoReadIds(obs.reads) = KNOWN_CONTENT_IDS
        /\ localStorage[cacheKeyOf(variant, flow.walletAddress)] =
               cacheEntry(variant, flow.ret, now, flow.walletAddress)

\* C4 as the code has it: the entry is overwritten when localStorage accepts
\* the write; a throwing setItem is caught, the reloaded list is still
\* returned and the entry stays as it was.
C4_ExpiryReloads ==
    ReturnedOverStale =>
        /\ ~obs.hit
        /\ InfoReadIds(obs.reads) = KNOWN_CONTENT_IDS
        /\ obs.wrote \in {"ok", "failed"}
        /\ obs.wrote = "ok" =>
               localStorage[cacheKeyOf(variant, flow.walletAddress)] =
                   cacheEntry(variant, flow.ret, now, flow.walletAddress)
        /\ obs.wrote = "failed" =>
               localStorage[cacheKeyOf(variant, flow.walletAddress)] =
                   obs.before[cacheKeyOf(variant, flow.walletAddress)]

\* An entry aged exactly the TTL was found, the decks were reloaded and the
\* entry overwritten.
C4_Witness ==
    /\ ReturnedOverStale
    /\ obs.seen # Unparsable
    /\ obs.startedAt - obs.seen.timestamp = CACHE_TTL
    /\ obs.wrote = "ok"
    /\ Len(flow.ret) > 0

\* C5: per-id failures are isolated.  Whatever ids fail (a rejected ledger
\* read, a failed manifest fetch, a throwing parse), a loadAllDecks that goes
\* to the ledger reads every known content id and returns the Decks of
\* exactly the ids that loaded, in known-id order.
Loaded(id) == id \notin obs.envFailed
C5_BestEffortSubset ==
    (ReturnedAll /\ ~obs.hit) =>
        /\ InfoReadIds(obs.reads) = KNOWN_CONTENT_IDS
        /\ DeckIds(flow.ret) = SelectSeq(KNOWN_CONTENT_IDS, Loaded)
        /\ flow.pc = "done"

\* An id failed and the ids after it were still loaded and returned.
C5_Witness ==
    /\ ReturnedAll
    /\ ~obs.hit
    /\ obs.envFailed # {}
    /\ \E id \in obs.envFailed : id # KNOWN_CONTENT_IDS[Len(KNOWN_CONTENT_IDS)]
    /\ Len(flow.ret) = Len(KNOWN_CONTENT_IDS) - 1
    /\ flow.ret[Len(flow.ret)].contentId = KNOWN_CONTENT_IDS[Len(KNOWN_CONTENT_IDS)]

(***************************************************************************)
(* Properties of disconnect (checked under SpecWallet).                    *)
(***************************************************************************)
\* This step is disconnect() returning for the wallet that was active.
DisconnectStep ==
    wallet.address # NULL /\ wallet'.address = NULL /\ wallet'.last = "disconnect"

\* C3: disconnecting the active wallet clears that wallet's deck-cache
\* scope.  Right after disconnect() returns, localStorage holds no deck-cache
\* entry under the scope of the wallet that was active, whichever
\* WalletManager the page runs and whether or not window.ContentLoader exists.
C3_DisconnectClearsScope ==
    [][DisconnectStep =>
           localStorage'[cacheKeyOf(variant, wallet.address)] = Absent]_vars

\* What the code does: src/src/wallet-manager.js on a page that has loaded
\* the ContentLoader removes the deck cache (every scope with the scoped
\* loader, the single key with the legacy one); otherwise disconnect() leaves
\* every deck-cache entry as it was.
C3_OnlyUnifiedWithLoader ==
    [][DisconnectStep =>
           IF wallet.impl = "unified" /\ wallet.contentLoaderLoaded
           THEN localStorage'[cacheKeyOf(variant, wallet.address)] = Absent
           ELSE \A k \in StorageKeys :
                    startsWithPrefix(k) => localStorage'[k] = localStorage[k]]_vars

\* A wallet whose scope holds a cached deck list has been disconnected and
\* the list is still there.
C3_Reached ==
    /\ wallet.last = "disconnect"
    /\ \E k \in StorageKeys :
           /\ startsWithPrefix(k)
           /\ localStorage[k] # Absent
           /\ Len(localStorage[k].decks) > 0

(***************************************************************************)
(* Properties of loadOwnedDecks (checked under SpecOwned).                 *)
(***************************************************************************)
\* loadOwnedDecks has just returned to its caller.
ReturnedOwned == obs.last = "returned" /\ flow.op = "loadOwnedDecks"

\* The i-th balanceOf of the call resolved: with a positive balance, with a
\* balance a JS number cannot hold.
PositiveBalance(i) ==
    obs.balances[i].outcome.ok /\ obs.balances[i].outcome.value._hex > 0
UnsafeBalance(i) ==
    obs.balances[i].outcome.ok /\ obs.balances[i].outcome.value._hex > MAX_SAFE_INTEGER
\* The decks with a positive balance, each carrying it, in listing order.
ExpectedOwned ==
    LET n == Len(flow.allDecks)
        idxs == SelectSeq([i \in 1..n |-> i], PositiveBalance)
    IN [j \in 1..Len(idxs) |->
           withBalance(flow.allDecks[idxs[j]],
                       obs.balances[idxs[j]].outcome.value._hex)]

\* C6: loadOwnedDecks(userAddress) returns exactly the decks of loadAllDecks
\* whose balanceOf(userAddress, contentId) is greater than zero, each
\* carrying that balance; a deck with balance 0 is never in the result.
C6_OwnedExactlyPositive ==
    ReturnedOwned =>
        /\ Len(obs.balances) = Len(flow.allDecks)
        /\ flow.ret = ExpectedOwned

\* C6 holds of the calls in which every balance fits a JS number.
C6_WithinSafeIntegers ==
    (ReturnedOwned /\ \A i \in 1..Len(obs.balances) : ~UnsafeBalance(i)) =>
        /\ Len(obs.balances) = Len(flow.allDecks)
        /\ flow.ret = ExpectedOwned

\* C7: a failing balance query excludes only its own deck.  The call still
\* returns, every deck of the listing is queried, the deck whose query failed
\* is left out and every other deck with a positive balance is included.
SomeQueryFailed == \E i \in 1..Len(obs.balances) : ~obs.balances[i].outcome.ok
InRet(id) == \E j \in 1..Len(flow.ret) : flow.ret[j].contentId = id
C7_BalanceFailureIsolated ==
    (ReturnedOwned /\ SomeQueryFailed) =>
        /\ flow.pc = "done"
        /\ Len(obs.balances) = Len(flow.allDecks)
        /\ \A i \in 1..Len(obs.balances) :
               /\ ~obs.balances[i].outcome.ok => ~InRet(obs.balances[i].id)
               /\ PositiveBalance(i) => InRet(obs.balances[i].id)

\* C7 holds of the calls in which every balance fits a JS number.
C7_WithinSafeIntegers ==
    (ReturnedOwned /\ SomeQueryFailed
       /\ \A i \in 1..Len(obs.balances) : ~UnsafeBalance(i)) =>
        /\ flow.pc = "done"
        /\ Len(obs.balances) = Len(flow.allDecks)
        /\ \A i \in 1..Len(obs.balances) :
               /\ ~obs.balances[i].outcome.ok => ~InRet(obs.balances[i].id)
               /\ PositiveBalance(i) => InRet(obs.balances[i].id)

\* A query failed, a later deck with a small positive balance was still
\* queried and returned.
C7_Reached ==
    /\ ReturnedOwned
    /\ Len(obs.balances) = Len(KNOWN_CONTENT_IDS)
    /\ ~obs.balances[1].outcome.ok
    /\ PositiveBalance(2) /\ ~UnsafeBalance(2)
    /\ InRet(obs.balances[2].id)

(***************************************************************************)
(* Properties of loadDeck (checked under SpecDeck).                        *)
(***************************************************************************)
\* getDeckById, that is loadDeck, has just returned to its caller.
ReturnedDeck == obs.last = "returned" /\ flow.op = "getDeckById"

\* Both ledger reads of the loadDeck succeeded.
BothReadsSucceeded == flow.info # Undefined /\ obs.version # Undefined
\* The record's maxSupply fits a JS number.
SafeSupply == flow.info.maxSupply._hex <= MAX_SAFE_INTEGER

\* The manifest-derived fields of a Deck as a manifest document gives them.
ManifestFields(m) ==
    [description |-> m.description, image |-> m.image,
     year |-> getAttribute(m, "Year"), creator |-> getAttribute(m, "Creator"),
     tradition |-> getAttribute(m, "Tradition"),
     license |-> getAttribute(m, "License"), external_url |-> m.external_url]
DeckManifestFields(d) ==
    [description |-> d.description, image |-> d.image, year |-> d.year,
     creator |-> d.creator, tradition |-> d.tradition, license |-> d.license,
     external_url |-> d.external_url]
EmptyManifestFields ==
    [description |-> "", image |-> "", year |-> "", creator |-> "",
     tradition |-> "", license |-> "", external_url |-> ""]

\* A known content id, an empty or placeholder pointer on the ledger, and the
\* local fallback fetched.
FallbackCase ==
    /\ ReturnedDeck
    /\ metadataMap(flow.id) # EmptyURI
    /\ BothReadsSucceeded
    /\ obs.version.manifestURI \in {EmptyURI, PlaceholderURI}
    /\ obs.fetches = <<[url |-> metadataMap(flow.id), line |-> 140,
                        outcome |-> "document"]>>

\* C8: for a known content id whose on-ledger manifest URI is empty or '0x'
\* and whose local fallback is fetchable, loadDeck returns a Deck whose
\* manifest-derived fields are those of the fallback, none of them empty.
C8_FallbackPopulates ==
    FallbackCase =>
        /\ flow.deck # Null
        /\ DeckManifestFields(flow.deck) = ManifestFields(FallbackManifest(flow.id))
        /\ \A f \in DOMAIN EmptyManifestFields :
               DeckManifestFields(flow.deck)[f] # ""

\* C8 holds whenever the record's maxSupply fits a JS number.
C8_WithinSafeIntegers ==
    (FallbackCase /\ SafeSupply) =>
        /\ flow.deck # Null
        /\ DeckManifestFields(flow.deck) = ManifestFields(FallbackManifest(flow.id))
        /\ \A f \in DOMAIN EmptyManifestFields :
               DeckManifestFields(flow.deck)[f] # ""

\* A content id outside the fallback set whose pointer is empty, a
\* placeholder, or could not be fetched, both ledger reads having succeeded.
NoManifestCase ==
    /\ ReturnedDeck
    /\ metadataMap(flow.id) = EmptyURI
    /\ BothReadsSucceeded
    /\ \/ obs.version.manifestURI \in {EmptyURI, PlaceholderURI} /\ obs.fetches = <<>>
       \/ Len(obs.fetches) = 1 /\ obs.fetches[1].outcome \in FetchFailures

\* The supply the loader reads off the record.
MintedOf(info) ==
    IF info.currentSupply # Undefined THEN info.currentSupply._hex
    ELSE info.totalMinted._hex

\* C9: for a content id outside the known fallback set whose manifest URI is
\* empty or unreachable, loadDeck still returns a Deck whenever both ledger
\* reads succeed: its manifest-derived fields are empty, its ledger-derived
\* fields (name, price, maxSupply, totalMinted, free) are present.
C9_DeckWithoutManifest ==
    NoManifestCase =>
        /\ flow.deck # Null
        /\ DeckManifestFields(flow.deck) = EmptyManifestFields
        /\ flow.deck.name = flow.info.name
        /\ flow.deck.priceWei = flow.info.price
        /\ flow.deck.price = formatEther(flow.info.price)
        /\ flow.deck.maxSupply = flow.info.maxSupply._hex
        /\ flow.deck.totalMinted = MintedOf(flow.info)
        /\ flow.deck.free \in BOOLEAN

\* C9 holds whenever the record's maxSupply fits a JS number.
C9_WithinSafeIntegers ==
    (NoManifestCase /\ SafeSupply) =>
        /\ flow.deck # Null
        /\ DeckManifestFields(flow.deck) = EmptyManifestFields
        /\ flow.deck.name = flow.info.name
        /\ flow.deck.priceWei = flow.info.price
        /\ flow.deck.price = formatEther(flow.info.price)
        /\ flow.deck.maxSupply = flow.info.maxSupply._hex
        /\ flow.deck.totalMinted = MintedOf(flow.info)
        /\ flow.deck.free \in BOOLEAN

\* Manifest fetches issued so far by the loadDeck in flight, and the URL the
\* second of them asks for.
IssuedFetches ==
    Len(obs.fetches) + (IF flow.pc = "awaitFetch" THEN 1 ELSE 0)
SecondURL ==
    IF Len(obs.fetches) >= 2 THEN obs.fetches[2].url ELSE resolveURI(flow.fetching)
\* No ledger read appears twice in the log.
NoReadRepeated ==
    \A i, j \in 1..Len(obs.reads) : i # j => obs.reads[i] # obs.reads[j]
\* The first fetch was of the on-ledger pointer.
FirstWasPointer ==
    /\ obs.fetches[1].line = 145
    /\ obs.fetches[1].url = resolveURI(obs.version.manifestURI)

\* C10: during one loadDeck at most two manifest fetches are issued; the
\* second is issued only after the fetch of the on-ledger pointer failed with
\* a network error or a non-success status, only if a local fallback exists
\* for the content id, and it targets that fallback; the fallback is never
\* fetched when the pointer was fetched successfully; no ledger read is
\* repeated.
C10_RetryOnlyAfterFailedFetch ==
    flow.op = "getDeckById" =>
        /\ IssuedFetches <= 2
        /\ IssuedFetches = 2 =>
               /\ FirstWasPointer
               /\ obs.fetches[1].outcome \in {"network", "status"}
               /\ metadataMap(flow.id) # EmptyURI
               /\ SecondURL = metadataMap(flow.id)
        /\ (Len(obs.fetches) >= 1 /\ obs.fetches[1].line = 145
              /\ obs.fetches[1].outcome \in {"document", "falsy"}) =>
               IssuedFetches = 1
        /\ NoReadRepeated

\* C10 as the code has it: the second fetch follows every fetchManifest of
\* the pointer that yielded no manifest (a network error, a non-success
\* status, a body that is not JSON, or a JSON document that is falsy), and
\* the fallback is never fetched when the pointer yielded a manifest.
C10_RetryOnlyWithoutManifest ==
    flow.op = "getDeckById" =>
        /\ IssuedFetches <= 2
        /\ IssuedFetches = 2 =>
               /\ FirstWasPointer
               /\ obs.fetches[1].outcome \in FetchFailures \cup {"falsy"}
               /\ metadataMap(flow.id) # EmptyURI
               /\ SecondURL = metadataMap(flow.id)
        /\ (Len(obs.fetches) >= 1 /\ obs.fetches[1].line = 145
              /\ obs.fetches[1].outcome = "document") =>
               IssuedFetches = 1
        /\ NoReadRepeated

\* The pointer served a body that is not JSON, the fallback was fetched and
\* the Deck built from it.
C10_Witness ==
    /\ ReturnedDeck
    /\ Len(obs.fetches) = 2
    /\ FirstWasPointer
    /\ obs.fetches[1].outcome = "badjson"
    /\ obs.fetches[2] = [url |-> metadataMap(flow.id), line |-> 149,
                         outcome |-> "document"]
    /\ flow.deck # Null
    /\ DeckManifestFields(flow.deck) = ManifestFields(FallbackManifest(flow.id))

(***************************************************************************)
(* The content record's isFree field (checked under SpecFree).             *)
(***************************************************************************)
\* The record getContentInfo resolves with, whatever ABI the contract object
\* was built from: isFree named or not, the supply named totalMinted,
\* currentSupply, or both (EvmContract.getContentInfo names isFree and
\* currentSupply).
RecordInfo(id, price, isFree, minted, current) ==
    [name |-> deckName(id), price |-> BN(price), maxSupply |-> BN(5),
     totalMinted |-> minted, isFree |-> isFree, currentSupply |-> current]
FreeInfoOutcomes ==
    {Rejected} \cup
    {Resolved(RecordInfo(flow.id, p, f, m, c)) :
        p \in {0, 1},
        f \in {Undefined, [bool |-> TRUE], [bool |-> FALSE]},
        m \in {Undefined, BN(0)},
        c \in {Undefined, BN(0)}}

NextFree ==
    \/ getDeckById
    \/ contentInfoSettles(FreeInfoOutcomes)
    \/ activeVersionSettles(AnyVersionOutcomes)
    \/ fetchManifestSettles(AnyFetchOutcomes)

SpecFree == Init /\ [][NextFree]_vars

\* loadDeck has produced a Deck.
ProducedDeck == ReturnedDeck /\ flow.deck # Null
\* The free flag the record calls for: its isFree when it carries one, else
\* whether its price is zero.
LedgerFree(info) ==
    IF info.isFree # Undefined THEN info.isFree.bool ELSE info.price._hex = 0

\* C11: for every Deck loadDeck produces, free equals (price == 0) unless the
\* ledger's record carries an explicit isFree field, and then free equals that
\* field even when it disagrees with the price.
C11_ExplicitIsFreeWins ==
    ProducedDeck => flow.deck.free = LedgerFree(flow.info)

\* C11 holds of the loader in public/content-loader.js.
C11_LegacyLoader ==
    (ProducedDeck /\ variant = "legacy") => flow.deck.free = LedgerFree(flow.info)
\* The loader of part_003 derives free from the price alone.
C11_ScopedIgnoresIsFree ==
    (ProducedDeck /\ variant = "scoped") =>
        flow.deck.free = (flow.info.price._hex = 0)
\* A Deck from a record whose isFree disagrees with its price.
C11_Reached ==
    /\ ProducedDeck
    /\ flow.info.isFree # Undefined
    /\ flow.info.isFree.bool # (flow.info.price._hex = 0)

(***************************************************************************)
(* The "unlimited" supply of the deployed content (checked under SpecDeck). *)
(***************************************************************************)
\* Content id 1 as the ledger reports it: price 0, maxSupply the uint256
\* maximum, nothing minted, no manifest pointer, the local fallback served.
UnlimitedCase ==
    /\ FallbackCase
    /\ flow.id = 1
    /\ flow.info.price = BN(0)
    /\ flow.info.maxSupply = BN(UINT256_MAX)
    /\ MintedOf(flow.info) = 0
    /\ getAttribute(FallbackManifest(1), "Year") = "1909"

\* C12: for contentId 1 with price 0, maxSupply the maximum uint256 and
\* totalMinted 0, the fallback manifest carrying Year 1909, loadDeck returns a
\* Deck (not null) with free = true and year = '1909': the unlimited supply
\* does not make the load fail.
C12_UnlimitedSupplyLoads ==
    UnlimitedCase =>
        /\ flow.deck # Null
        /\ flow.deck.free = TRUE
        /\ flow.deck.year = "1909"

\* What the code does with that record: the load ends in null.
C12_UnlimitedSupplyIsNull ==
    UnlimitedCase => flow.deck = Null
\* The same content with a supply that fits a JS number loads as described.
C12_WithinSafeIntegers ==
    (FallbackCase /\ flow.id = 1 /\ flow.info.price = BN(0) /\ SafeSupply) =>
        /\ flow.deck # Null
        /\ flow.deck.free = (variant = "scoped" \/ flow.info.isFree.bool)
        /\ flow.deck.year = "1909"
C12_Reached == UnlimitedCase

(***************************************************************************)
(* resolveURI as a function of its argument (checked under SpecURI).       *)
(***************************************************************************)
\* Longest content identifier (the text after the scheme) tried.
MaxCidLen == 2
CidChars == {"Q", "/"}
CidTexts ==
    UNION {[1..n -> CidChars] : n \in 0..MaxCidLen}
\* What a pointer can begin with: nothing, the ipfs scheme, the scheme cut
\* short, in upper case, or preceded by a character, https, and "0x".
PointerHeads ==
    {<<>>, IpfsScheme, <<"i", "p", "f", "s", ":", "/">>,
     <<"I", "P", "F", "S", ":", "/", "/">>, <<"x">> \o IpfsScheme,
     <<"h", "t", "t", "p", "s", ":", "/", "/">>, PlaceholderURI}
PointerTexts == {head \o cid : head \in PointerHeads, cid \in CidTexts}

InitURI ==
    /\ contract = NoContract
    /\ variant \in {"scoped", "legacy"}
    /\ localStorage = [k \in StorageKeys |-> Absent]
    /\ now = 0
    /\ ticks = 0
    /\ faults = 0
    /\ calls = 0
    /\ clears = 0
    /\ wallet = NoWallet
    /\ flow \in {[IdleFlow EXCEPT !.fetching = uri] : uri \in PointerTexts}
    /\ obs = IdleObs

\* window.ContentLoader.resolveURI(uri) is called and returns.
callResolveURI ==
    /\ flow.pc = "idle"
    /\ flow' = [flow EXCEPT !.op = "resolveURI", !.pc = "done",
                            !.ret = resolveURI(flow.fetching)]
    /\ UNCHANGED <<contract, variant, localStorage, now, ticks, faults, calls, clears,
                   wallet, obs>>

SpecURI == InitURI /\ [][callResolveURI]_vars

\* The pointer has the form ipfs://<cid>, and its <cid>.
IsIpfsPointer(p) == \E cid \in CidTexts : p = IpfsScheme \o cid
CidOf(p) == CHOOSE cid \in CidTexts : p = IpfsScheme \o cid

\* C13: for every pointer ipfs://<cid>, resolveURI returns
\* https://ipfs.io/ipfs/<cid> with the same <cid>; every non-empty pointer
\* with another scheme is returned unchanged.
C13_ResolveURI ==
    flow.op = "resolveURI" =>
        /\ IsIpfsPointer(flow.fetching) =>
               flow.ret = IpfsGateway \o CidOf(flow.fetching)
        /\ (~IsIpfsPointer(flow.fetching) /\ flow.fetching # EmptyURI) =>
               flow.ret = flow.fetching

\* ipfs://Q/ has been resolved to https://ipfs.io/ipfs/Q/.
C13_Witness ==
    /\ flow.op = "resolveURI"
    /\ flow.fetching = IpfsScheme \o <<"Q", "/">>
    /\ flow.ret = IpfsGateway \o <<"Q", "/">>

(***************************************************************************)
(* The wallet manager of src/src/wallet-manager.js and part_002, operation *)
(* by operation.                                                           *)
(***************************************************************************)
\* Wallet operations started in one behaviour.
MaxWalletOps == 3

\* The manager's own fields.
ManagerFields(w) ==
    [api |-> w.api, selectedAccount |-> w.selectedAccount,
     injector |-> w.injector, evmAddress |-> w.evmAddress,
     provider |-> w.provider]

\* A caller may start an operation: none is in flight and the bound allows it.
CanCall == wallet.wop.pc \in {"idle", "done"} /\ wallet.started < MaxWalletOps
\* The operation record of a call that starts now.
NewOp(op, arg) ==
    [IdleOp EXCEPT !.op = op, !.arg = arg, !.apiAtCall = wallet.api,
                   !.dialsAtCall = wallet.dials,
                   !.managerAtCall = ManagerFields(wallet)]
Frame == UNCHANGED <<contract, variant, localStorage, now, ticks, faults, calls, clears,
                     flow, obs>>

\* substrateToEvm(substrateAddress) called from outside: it returns at once.
callSubstrateToEvm ==
    \E substrateAddress \in AccountIds :
        LET ret == substrateToEvm(substrateAddress)
            first == IF wallet.conv[substrateAddress] = Unseen
                     THEN [seen |-> TRUE, ret |-> ret,
                           selectedAccount |-> wallet.selectedAccount]
                     ELSE wallet.conv[substrateAddress]
        IN /\ CanCall
           /\ wallet' = [wallet EXCEPT
                  !.started = @ + 1, !.last = "substrateToEvm",
                  !.conv[substrateAddress] = first,
                  !.wop = [NewOp("substrateToEvm", substrateAddress) EXCEPT
                              !.pc = "done", !.ret = ret, !.first = first]]
           /\ Frame

\* setupProvider(account) (selectAccount in part_002) up to its await of
\* web3FromAddress: the account is selected.
setupProvider ==
    \E address \in ValidAccountIds :
        /\ CanCall
        /\ wallet.impl \in {"unified", "polkadot"}
        /\ wallet' = [wallet EXCEPT
               !.started = @ + 1, !.last = "setupProvider",
               !.selectedAccount = [address |-> address],
               !.wop = [NewOp("setupProvider", address) EXCEPT
                           !.pc = "awaitInjector"]]
        /\ Frame

\* await web3FromAddress(account.address) settles: the injector is kept and
\* the bridged address derived, or the rejection leaves setupProvider.
web3FromAddressSettles ==
    /\ wallet.wop.pc = "awaitInjector"
    /\ \E ok \in BOOLEAN :
        wallet' =
            IF ok
            THEN [wallet EXCEPT
                     !.injector = [injectorOf |-> wallet.wop.arg],
                     !.evmAddress = substrateToEvm(wallet.wop.arg),
                     !.wop = [@ EXCEPT !.pc = "done", !.ret = Undefined]]
            ELSE [wallet EXCEPT !.wop = [@ EXCEPT !.pc = "done", !.ret = Thrown]]
    /\ Frame

\* A page with the manager of src/src/wallet-manager.js or of part_002, with
\* or without an injected Ethereum provider and the ethers library.
InitManager ==
    /\ contract = NoContract
    /\ variant = "scoped"
    /\ localStorage = [k \in StorageKeys |-> Absent]
    /\ now = 0
    /\ ticks = 0
    /\ faults = 0
    /\ calls = 0
    /\ clears = 0
    /\ wallet \in {[NoWallet EXCEPT !.impl = impl, !.ethereum = e, !.ethers = l] :
                      impl \in {"unified", "polkadot"}, e \in BOOLEAN, l \in BOOLEAN}
    /\ flow = IdleFlow
    /\ obs = IdleObs

\* Address bridging in every state of the manager.
NextBridge ==
    \/ callSubstrateToEvm
    \/ setupProvider
    \/ web3FromAddressSettles
    \/ disconnect

SpecBridge == InitManager /\ [][NextBridge]_vars

(***************************************************************************)
(* Properties of address bridging (checked under SpecBridge).              *)
(***************************************************************************)
\* substrateToEvm has just returned.
ReturnedBridged == wallet.last = "substrateToEvm" /\ wallet.wop.op = "substrateToEvm"
\* The value of a hex digit, and the bytes a "0x..." text spells.
HexValue(c) == (CHOOSE n \in 1..16 : HexDigits[n] = c) - 1
IsHexOf(text, bytes) ==
    /\ Len(text) = 2 + 2 * Len(bytes)
    /\ text[1] = "0" /\ text[2] = "x"
    /\ \A i \in 1..Len(bytes) :
           16 * HexValue(text[2 * i + 1]) + HexValue(text[2 * i + 2]) = bytes[i]

\* C14: for every valid native account identifier A, substrateToEvm(A) is the
\* first 20 bytes of A's decoded public key, and every call with the same A
\* returns what the first call with A returned, whatever the manager's state
\* (connected or not, any selected account) at each call.
C14_BridgingDeterministic ==
    (ReturnedBridged /\ wallet.wop.arg \in ValidAccountIds) =>
        /\ wallet.wop.ret # Null
        /\ IsHexOf(wallet.wop.ret.hex,
                   SubSeq(decodeAddress(wallet.wop.arg), 1, 20))
        /\ wallet.wop.ret = wallet.wop.first.ret

\* The same identifier has been bridged twice, with different accounts
\* selected at the two calls.
C14_Witness ==
    /\ ReturnedBridged
    /\ wallet.wop.arg \in ValidAccountIds
    /\ wallet.wop.managerAtCall.selectedAccount # Null
    /\ wallet.wop.first.selectedAccount # wallet.wop.managerAtCall.selectedAccount
    /\ wallet.wop.managerAtCall.selectedAccount.address # wallet.wop.arg

\* C15: for every malformed (undecodable) account identifier, substrateToEvm
\* returns null, never raises, and changes no field of the manager.
C15_MalformedIsNull ==
    (ReturnedBridged /\ wallet.wop.arg \in MalformedAccountIds) =>
        /\ wallet.wop.ret = Null
        /\ ManagerFields(wallet) = wallet.wop.managerAtCall

\* A malformed identifier has been bridged while an account was selected.
C15_Witness ==
    /\ ReturnedBridged
    /\ wallet.wop.arg = "5GrwvaEG"
    /\ wallet.selectedAccount # Null
    /\ wallet.evmAddress # Null

(***************************************************************************)
(* connectToChain.                                                         *)
(***************************************************************************)
\* An Error with a message.
Error(message) == [error |-> message]
\* The connection object the n-th dial yields.
Connection(n) == [connection |-> n]

\* if (this.api) return this.api;
alreadyConnectedNever(api) == FALSE
alreadyConnected(api) == api # Null

\* connectToChain() up to its first await: the existing connection is
\* returned, or a WsProvider is made (the dial) and ApiPromise.create awaited.
connectToChain ==
    /\ CanCall
    /\ wallet.impl \in {"unified", "polkadot"}
    /\ wallet' =
          IF alreadyConnected(wallet.api)
          THEN [wallet EXCEPT
                   !.started = @ + 1, !.last = "connectToChain",
                   !.wop = [NewOp("connectToChain", NULL) EXCEPT
                               !.pc = "done", !.ret = wallet.api]]
          ELSE [wallet EXCEPT
                   !.started = @ + 1, !.last = "connectToChain",
                   !.dials = @ + 1,
                   !.wop = [NewOp("connectToChain", NULL) EXCEPT
                               !.pc = "awaitCreate"]]
    /\ Frame

\* The awaits of connectToChain in order: ApiPromise.create, api.isReady
\* (src/src/wallet-manager.js only), rpc.system.chain, rpc.system.version.
nextAwait(impl, pc) ==
    CASE pc = "awaitCreate" -> IF impl = "unified" THEN "awaitReady" ELSE "awaitChain"
      [] pc = "awaitReady" -> "awaitChain"
      [] pc = "awaitChain" -> "awaitVersion"
      [] OTHER -> "done"

\* catch (error): the call throws; src/src/wallet-manager.js throws a new
\* Error, part_002 rethrows what it caught.
afterChainFailureRedials(w) ==
    [w EXCEPT !.dials = @ + 1, !.wop = [@ EXCEPT !.pc = "awaitCreate"]]
afterChainFailure(w) ==
    [w EXCEPT !.wop = [@ EXCEPT
        !.pc = "done",
        !.ret = IF w.impl = "unified"
                THEN Error("Could not connect to Moonbase Alpha network")
                ELSE Error("what the await rejected with")]]

\* One of the awaits of connectToChain settles.
chainSettles ==
    /\ wallet.wop.op = "connectToChain"
    /\ wallet.wop.pc \in {"awaitCreate", "awaitReady", "awaitChain", "awaitVersion"}
    /\ \E ok \in BOOLEAN :
        wallet' =
            IF ~ok
            THEN afterChainFailure([wallet EXCEPT !.wop.failedAt = wallet.wop.pc])
            ELSE LET api == IF wallet.wop.pc = "awaitCreate"
                            THEN Connection(wallet.dials) ELSE wallet.api
                     pc == nextAwait(wallet.impl, wallet.wop.pc)
                 IN [wallet EXCEPT
                        !.api = api,
                        !.wop = [@ EXCEPT !.pc = pc,
                                          !.ret = IF pc = "done" THEN api ELSE @]]
    /\ Frame

(***************************************************************************)
(* getSigner (src/src/wallet-manager.js).                                  *)
(***************************************************************************)
MOONBASE_ALPHA_RPC == "https://rpc.api.moonbase.moonbeam.network"

\* isConnected()
isConnectedToChain(w) == w.api # Null
isConnected(w) == w.selectedAccount # Null /\ w.api # Null

\* What window.ethereum.request({method: 'eth_accounts'}) settles with: a
\* rejection, null, or a list of authorized accounts.
Accounts(list) == [accounts |-> list]
EthAccountsOutcomes ==
    {Rejected, Resolved(Null), Resolved(Accounts(<<>>)),
     Resolved(Accounts(<<"0xA1">>)), Resolved(Accounts(<<"0xB2", "0xA1">>))}

\* accounts && accounts.length > 0
hasAccountsIgnored(accounts) == FALSE
hasAccounts(accounts) == accounts # Null /\ Len(accounts.accounts) > 0

\* The tail of getSigner: getWeb3Provider() makes the JsonRpcProvider once
\* (it throws when window.ethers is missing) and the bridging signer is
\* built around it.
customSigner(w) ==
    IF ~w.ethers
    THEN [w EXCEPT !.wop = [@ EXCEPT !.pc = "done",
                                     !.ret = Error("ethers.js not loaded")]]
    ELSE LET provider == IF w.provider = Null
                         THEN [JsonRpcProvider |-> MOONBASE_ALPHA_RPC]
                         ELSE w.provider
         IN [w EXCEPT !.provider = provider,
                      !.wop = [@ EXCEPT
                          !.pc = "done",
                          !.ret = [signer |-> "PolkadotEVMSigner",
                                   provider |-> provider]]]

\* getSigner() up to its first await.
getSigner ==
    /\ CanCall
    /\ wallet.impl = "unified"
    /\ LET entered == [wallet EXCEPT !.started = @ + 1, !.last = "getSigner",
                                     !.wop = NewOp("getSigner", NULL)]
       IN wallet' =
            IF ~isConnected(wallet)
            THEN [entered EXCEPT !.wop = [@ EXCEPT
                     !.pc = "done", !.ret = Error("Wallet not connected")]]
            ELSE IF wallet.ethereum
            THEN [entered EXCEPT !.wop = [@ EXCEPT
                     !.pc = "awaitEthAccounts", !.queried = {"eth_accounts"}]]
            ELSE customSigner(entered)
    /\ Frame

\* await window.ethereum.request(...) settles: a signer of the Web3Provider
\* for the first account, or (no accounts, a rejection, or a throw while the
\* Web3Provider is built) the bridging signer.
ethAccountsSettles ==
    /\ wallet.wop.pc = "awaitEthAccounts"
    /\ \E o \in EthAccountsOutcomes :
        LET seen == [wallet EXCEPT !.wop.ethAccounts = o]
        IN wallet' =
             IF o.ok /\ hasAccounts(o.value) /\ wallet.ethers
             THEN [seen EXCEPT !.wop = [@ EXCEPT
                      !.pc = "done",
                      !.ret = [signer |-> "JsonRpcSigner",
                               account |-> o.value.accounts[1]]]]
             ELSE customSigner(seen)
    /\ Frame

\* The manager's connection, accounts and signers.
NextManager ==
    \/ connectToChain
    \/ chainSettles
    \/ setupProvider
    \/ web3FromAddressSettles
    \/ disconnect
    \/ getSigner
    \/ ethAccountsSettles

SpecManager == InitManager /\ [][NextManager]_vars

(***************************************************************************)
(* Properties of the manager's connection and signers (checked under       *)
(* SpecManager).                                                           *)
(***************************************************************************)
\* The operation in flight or last finished is a connectToChain that found a
\* connection established when it was called.
RepeatedConnect ==
    wallet.wop.op = "connectToChain" /\ wallet.wop.apiAtCall # Null

\* C16: a connectToChain called while a connection is established returns
\* that same connection object and does not dial the endpoint again, however
\* many times it is repeated.
C16_ConnectIdempotent ==
    RepeatedConnect =>
        /\ wallet.wop.pc = "done"
        /\ wallet.wop.ret = wallet.wop.apiAtCall
        /\ wallet.api = wallet.wop.apiAtCall
        /\ wallet.dials = wallet.wop.dialsAtCall

\* The third operation of a behaviour is a connectToChain that returned the
\* connection of the one dial made.
C16_Witness ==
    /\ RepeatedConnect
    /\ wallet.started = 3
    /\ wallet.dials = 1
    /\ wallet.selectedAccount = Null
    /\ wallet.wop.ret = Connection(1)

\* An await of the connectToChain in flight or last finished was rejected.
ChainFailed == wallet.wop.op = "connectToChain" /\ wallet.wop.failedAt # "none"

\* C17: whenever the dial is rejected (the endpoint unreachable, the
\* handshake failing) or the chain-label or node-version query is rejected,
\* connectToChain throws an error and returns no connection, and it has
\* dialled once: it does not dial again by itself.
C17_ConnectFailureThrows ==
    ChainFailed =>
        /\ wallet.wop.pc = "done"
        /\ "error" \in DOMAIN wallet.wop.ret
        /\ wallet.impl = "unified" =>
               wallet.wop.ret = Error("Could not connect to Moonbase Alpha network")
        /\ wallet.dials = wallet.wop.dialsAtCall + 1

\* The node-version query failed after the dial had succeeded.
C17_Witness ==
    /\ ChainFailed
    /\ wallet.wop.failedAt = "awaitVersion"
    /\ wallet.impl = "unified"
    /\ wallet.wop.pc = "done"

\* getSigner has been called and has settled.
SignerSettled == wallet.wop.op = "getSigner" /\ wallet.wop.pc = "done"
\* No Account was selected when it was called.
NoAccountAtCall == wallet.wop.managerAtCall.selectedAccount = Null

\* C18: whenever no Account is selected (also after disconnect), getSigner
\* fails with the not-connected error, having queried neither the injected
\* provider nor the ledger and having constructed no signer or provider.
C18_NotConnectedFails ==
    (wallet.wop.op = "getSigner" /\ NoAccountAtCall) =>
        /\ wallet.wop.pc = "done"
        /\ wallet.wop.ret = Error("Wallet not connected")
        /\ wallet.wop.queried = {}
        /\ wallet.provider = wallet.wop.managerAtCall.provider
        /\ wallet.dials = wallet.wop.dialsAtCall

\* getSigner called after a disconnect, the chain connection still up and an
\* injected provider present.
C18_Witness ==
    /\ wallet.wop.op = "getSigner"
    /\ NoAccountAtCall
    /\ wallet.wop.apiAtCall # Null
    /\ wallet.ethereum
    /\ wallet.wop.ret = Error("Wallet not connected")

\* The manager was connected when getSigner was called.
ConnectedAtCall ==
    /\ wallet.wop.managerAtCall.selectedAccount # Null
    /\ wallet.wop.apiAtCall # Null
\* An injected provider exists and its account query succeeded with at least
\* one authorized account.
InjectedCase ==
    /\ wallet.ethereum
    /\ wallet.wop.ethAccounts # Undefined
    /\ wallet.wop.ethAccounts.ok
    /\ wallet.wop.ethAccounts.value # Null
    /\ Len(wallet.wop.ethAccounts.value.accounts) >= 1
IsSigner(ret, kind) == "signer" \in DOMAIN ret /\ ret.signer = kind

\* C19: when connected, getSigner returns a signer bound to the injected
\* provider's first authorized account if and only if an injected provider
\* exists and its account query succeeds with at least one account; in every
\* other case it returns the bridging signer, never an error.
C19_SignerSelection ==
    (SignerSettled /\ ConnectedAtCall) =>
        /\ "error" \notin DOMAIN wallet.wop.ret
        /\ IsSigner(wallet.wop.ret, "JsonRpcSigner") <=> InjectedCase
        /\ InjectedCase =>
               wallet.wop.ret.account = wallet.wop.ethAccounts.value.accounts[1]
        /\ ~InjectedCase => IsSigner(wallet.wop.ret, "PolkadotEVMSigner")

\* C19 as the code has it: the selection is as claimed when the ethers
\* library is loaded; when window.ethers is missing, getSigner fails with
\* 'ethers.js not loaded' whatever the injected provider reports.
C19_SignerSelectionWithEthers ==
    (SignerSettled /\ ConnectedAtCall) =>
        IF wallet.ethers
        THEN /\ "error" \notin DOMAIN wallet.wop.ret
             /\ IsSigner(wallet.wop.ret, "JsonRpcSigner") <=> InjectedCase
             /\ InjectedCase =>
                    wallet.wop.ret.account = wallet.wop.ethAccounts.value.accounts[1]
             /\ ~InjectedCase => IsSigner(wallet.wop.ret, "PolkadotEVMSigner")
        ELSE wallet.wop.ret = Error("ethers.js not loaded")

\* The injected provider reported two accounts and the signer is bound to the
\* first of them.
C19_Witness ==
    /\ SignerSettled /\ ConnectedAtCall
    /\ wallet.ethers
    /\ InjectedCase
    /\ Len(wallet.wop.ethAccounts.value.accounts) = 2
    /\ wallet.wop.ret = [signer |-> "JsonRpcSigner", account |-> "0xB2"]

(***************************************************************************)
(* EvmContract (src/src/evm-contract.js): parameter and return-data codec. *)
(***************************************************************************)
\* Bytes of one parameter slot.
SlotLength == 32
ZeroBytes(n) == [i \in 1..n |-> 0]
\* Argument and return values: a JS boolean, an integer (number or BigInt),
\* the bytes hexToU8a makes of a hex string.
Bool(b) == [bool |-> b]
Uint(n) == [uint |-> n]
Hex(bytes) == [hex |-> bytes]
hexToU8a(value) == IF "hex" \in DOMAIN value THEN value.hex ELSE <<>>
\* Uint8Array.prototype.slice(begin, end) with 0 <= begin <= end.
sliceOf(bytes, begin, end) ==
    SubSeq(bytes, begin + 1, IF Len(bytes) < end THEN Len(bytes) ELSE end)
\* Uint8Array.prototype.slice(-n)
sliceLast(bytes, n) ==
    SubSeq(bytes, IF Len(bytes) > n THEN Len(bytes) - n + 1 ELSE 1, Len(bytes))
\* TypedArray.prototype.set(array, offset): a RangeError when it does not fit.
setBytes(target, array, offset) ==
    IF offset < 0 \/ offset + Len(array) > Len(target)
    THEN Thrown
    ELSE [i \in 1..Len(target) |->
             IF i > offset /\ i <= offset + Len(array)
             THEN array[i - offset] ELSE target[i]]
\* Type names as they are written in a parameter list.
TypeAddress == <<"a", "d", "d", "r", "e", "s", "s">>
TypeBool == <<"b", "o", "o", "l">>
TypeString == <<"s", "t", "r", "i", "n", "g">>
TypeUint256 == <<"u", "i", "n", "t", "2", "5", "6">>
TypeUint8 == <<"u", "i", "n", "t", "8">>
TypeBytes32 == <<"b", "y", "t", "e", "s", "3", "2">>
\* type === 'uint256' || type.startsWith('uint')
isUint(type) == type = TypeUint256 \/ startsWith(type, <<"u", "i", "n", "t">>)

\* The integer branch of encodeParams: num is declared const, so after
\* bytes[31] has been written `num >>= 8n` throws a TypeError and no slot is
\* produced, whatever the value.
encodeUint(value) == Thrown

\* value ? 1 : 0
truthy(value) ==
    IF "bool" \in DOMAIN value THEN value.bool
    ELSE IF "uint" \in DOMAIN value THEN value.uint # 0
    ELSE value # Undefined
encodeBool(value) == IF truthy(value) THEN 1 ELSE 0

\* encodeParams(types, values): the forEach over the types, from index i on.
RECURSIVE encodeParamsFrom(_, _, _, _)
encodeParamsFrom(types, values, i, encoded) ==
    IF i > Len(types) THEN encoded
    ELSE LET type == types[i]
             value == IF i <= Len(values) THEN values[i] ELSE Undefined
             offset == (i - 1) * SlotLength
             next ==
                IF type = TypeAddress
                THEN setBytes(encoded, hexToU8a(value),
                              offset + (SlotLength - Len(hexToU8a(value))))
                ELSE IF isUint(type)
                THEN LET bytes == encodeUint(value)
                     IN IF bytes = Thrown THEN Thrown
                        ELSE setBytes(encoded, bytes, offset)
                ELSE IF type = TypeBool
                THEN [encoded EXCEPT ![offset + SlotLength] = encodeBool(value)]
                ELSE encoded
         IN IF next = Thrown THEN Thrown
            ELSE encodeParamsFrom(types, values, i + 1, next)
encodeParams(types, values) ==
    encodeParamsFrom(types, values, 1, ZeroBytes(Len(types) * SlotLength))

\* BigInt.prototype.toString(): the decimal digits.
DecimalDigits == <<"0", "1", "2", "3", "4", "5", "6", "7", "8", "9">>
RECURSIVE toDecimal(_)
toDecimal(n) ==
    IF n < 10 THEN <<DecimalDigits[n + 1]>>
    ELSE toDecimal(n \div 10) \o <<DecimalDigits[(n % 10) + 1]>>
\* value = (value << 8n) | BigInt(bytes[i]) over all the bytes given.
RECURSIVE foldBytes(_, _, _)
foldBytes(bytes, i, value) ==
    IF i > Len(bytes) THEN value
    ELSE foldBytes(bytes, i + 1, value * 256 + bytes[i])

decodeBool(bytes) == Len(bytes) >= 32 /\ bytes[32] = 1

\* decodeSingleValue(type, bytes)
decodeSingleValue(type, bytes) ==
    IF type = TypeAddress THEN u8aToHex(sliceLast(bytes, 20))
    ELSE IF isUint(type) THEN [string |-> toDecimal(foldBytes(bytes, 1, 0))]
    ELSE IF type = TypeBool THEN Bool(decodeBool(bytes))
    ELSE IF type = TypeString
    THEN [text |-> sliceOf(bytes, 64,
                     64 + foldBytes(sliceOf(bytes, 32, 64), 1, 0))]
    ELSE u8aToHex(bytes)

\* decodeReturnData(types, data)
decodeReturnData(types, data) ==
    IF data = Null \/ hexToU8a(data) = <<>> THEN Null
    ELSE LET bytes == hexToU8a(data)
         IN IF Len(types) = 1 THEN decodeSingleValue(types[1], bytes)
            ELSE [results |->
                    [k \in 1..Len(types) |->
                        decodeSingleValue(types[k],
                            sliceOf(bytes, (k - 1) * 32, k * 32))]]

(***************************************************************************)
(* EvmContract (src/src/evm-contract.js): the methods built from the       *)
(* interface description, call and send.                                   *)
(***************************************************************************)
\* String.prototype.includes
includes(text, sub) ==
    \E i \in 0..(Len(text) - Len(sub)) : SubSeq(text, i + 1, i + Len(sub)) = sub
\* Characters \w does not match, of those interface entries are written with.
NonWordChars == {" ", "(", ")", ","}
\* The first index from `from` on whose character is not in (is in) chars,
\* or Len(text) + 1.
skipWhile(text, from, chars) ==
    CHOOSE j \in from..(Len(text) + 1) :
        /\ j = Len(text) + 1 \/ text[j] \notin chars
        /\ \A k \in from..(j - 1) : text[k] \in chars
skipUntil(text, from, chars) ==
    CHOOSE j \in from..(Len(text) + 1) :
        /\ j = Len(text) + 1 \/ text[j] \in chars
        /\ \A k \in from..(j - 1) : text[k] \notin chars
FunctionKeyword == <<"f", "u", "n", "c", "t", "i", "o", "n">>
ReturnsKeyword == <<"r", "e", "t", "u", "r", "n", "s">>
ViewKeyword == <<"v", "i", "e", "w">>
PureKeyword == <<"p", "u", "r", "e">>

\* item.match(/function\s+(\w+)\s*\((.*?)\)/) tried at index i.
matchFunctionAt(item, i) ==
    LET afterKw == i + Len(FunctionKeyword)
        name == skipWhile(item, afterKw, {" "})
        nameEnd == skipUntil(item, name, NonWordChars)
        open == skipWhile(item, nameEnd, {" "})
        close == skipUntil(item, open + 1, {")"})
    IN IF /\ afterKw - 1 <= Len(item)
          /\ SubSeq(item, i, afterKw - 1) = FunctionKeyword
          /\ name > afterKw
          /\ nameEnd > name
          /\ open <= Len(item) /\ item[open] = "("
          /\ close <= Len(item)
       THEN [name |-> SubSeq(item, name, nameEnd - 1),
             params |-> SubSeq(item, open + 1, close - 1)]
       ELSE Null
matchFunction(item) ==
    IF \E i \in 1..Len(item) : matchFunctionAt(item, i) # Null
    THEN matchFunctionAt(item,
             CHOOSE i \in 1..Len(item) :
                 /\ matchFunctionAt(item, i) # Null
                 /\ \A j \in 1..(i - 1) : matchFunctionAt(item, j) = Null)
    ELSE Null

\* abiItem.match(/returns\s*\((.*?)\)/): the text between the parentheses.
matchReturnsAt(item, i) ==
    LET afterKw == i + Len(ReturnsKeyword)
        open == skipWhile(item, afterKw, {" "})
        close == skipUntil(item, open + 1, {")"})
    IN IF /\ afterKw - 1 <= Len(item)
          /\ SubSeq(item, i, afterKw - 1) = ReturnsKeyword
          /\ open <= Len(item) /\ item[open] = "("
          /\ close <= Len(item)
       THEN [types |-> SubSeq(item, open + 1, close - 1)]
       ELSE Null
matchReturns(item) ==
    IF \E i \in 1..Len(item) : matchReturnsAt(item, i) # Null
    THEN matchReturnsAt(item,
             CHOOSE i \in 1..Len(item) :
                 /\ matchReturnsAt(item, i) # Null
                 /\ \A j \in 1..(i - 1) : matchReturnsAt(item, j) = Null)
    ELSE Null

\* text.split(','), String.prototype.trim and t.split(' ')[0].
RECURSIVE split(_)
split(text) ==
    LET comma == skipUntil(text, 1, {","})
    IN IF comma > Len(text) THEN <<text>>
       ELSE <<SubSeq(text, 1, comma - 1)>> \o split(SubSeq(text, comma + 1, Len(text)))
RECURSIVE trim(_)
trim(text) ==
    IF text # <<>> /\ text[1] = " " THEN trim(Tail(text))
    ELSE IF text # <<>> /\ text[Len(text)] = " "
    THEN trim(SubSeq(text, 1, Len(text) - 1))
    ELSE text
firstWord(text) == SubSeq(text, 1, skipUntil(text, 1, {" "}) - 1)
splitTypes(paramTypes) ==
    LET parts == split(paramTypes) IN [i \in 1..Len(parts) |-> trim(parts[i])]

\* Entries of an interface description.
\* "function owns(address account) view returns (bool)"
OwnsItem ==
    <<"f", "u", "n", "c", "t", "i", "o", "n", " ", "o", "w", "n", "s", "(",
      "a", "d", "d", "r", "e", "s", "s", " ", "a", "c", "c", "o", "u", "n",
      "t", ")", " ", "v", "i", "e", "w", " ", "r", "e", "t", "u", "r", "n",
      "s", " ", "(", "b", "o", "o", "l", ")">>
\* "function fee() pure returns (uint256)"
FeeItem ==
    <<"f", "u", "n", "c", "t", "i", "o", "n", " ", "f", "e", "e", "(", ")",
      " ", "p", "u", "r", "e", " ", "r", "e", "t", "u", "r", "n", "s", " ",
      "(", "u", "i", "n", "t", "2", "5", "6", ")">>
\* "function claim(uint256 contentId) external"
ClaimItem ==
    <<"f", "u", "n", "c", "t", "i", "o", "n", " ", "c", "l", "a", "i", "m",
      "(", "u", "i", "n", "t", "2", "5", "6", " ", "c", "o", "n", "t", "e",
      "n", "t", "I", "d", ")", " ", "e", "x", "t", "e", "r", "n", "a", "l">>
\* "function approve(address,bool)"
ApproveItem ==
    <<"f", "u", "n", "c", "t", "i", "o", "n", " ", "a", "p", "p", "r", "o",
      "v", "e", "(", "a", "d", "d", "r", "e", "s", "s", ",", "b", "o", "o",
      "l", ")">>
\* "function preview(bool) returns (bool)"
PreviewItem ==
    <<"f", "u", "n", "c", "t", "i", "o", "n", " ", "p", "r", "e", "v", "i",
      "e", "w", "(", "b", "o", "o", "l", ")", " ", "r", "e", "t", "u", "r",
      "n", "s", " ", "(", "b", "o", "o", "l", ")">>
\* "event Claimed(address)"
EventItem ==
    <<"e", "v", "e", "n", "t", " ", "C", "l", "a", "i", "m", "e", "d", "(",
      "a", "d", "d", "r", "e", "s", "s", ")">>
\* "function broken"
BrokenItem ==
    <<"f", "u", "n", "c", "t", "i", "o", "n", " ", "b", "r", "o", "k", "e",
      "n">>

\* item.includes('view') || item.includes('pure')
isView(item) == includes(item, ViewKeyword) \/ includes(item, PureKeyword)

\* buildMethods(): the method of each entry that holds 'function ' and
\* matches; a later entry of the same name replaces an earlier one.
Builds(item) ==
    includes(item, FunctionKeyword \o <<" ">>) /\ matchFunction(item) # Null
buildMethods(abi) ==
    LET built == {i \in 1..Len(abi) : Builds(abi[i])}
        names == {matchFunction(abi[i]).name : i \in built}
        lastOf(name) ==
            CHOOSE i \in built :
                /\ matchFunction(abi[i]).name = name
                /\ \A j \in built :
                       matchFunction(abi[j]).name = name => j <= i
    IN [name \in names |->
           [params |-> matchFunction(abi[lastOf(name)]).params,
            isView |-> isView(abi[lastOf(name)])]]
\* new EvmContract(api, address, abi, signer)
EvmContract(abi) == [abi |-> abi, methods |-> buildMethods(abi)]

\* encodeFunctionData(methodName, paramTypes, args): the selector (the first
\* four bytes of the hash of the signature) and the encoded parameters.
encodeFunctionData(methodName, paramTypes, args) ==
    LET signature == methodName \o <<"(">> \o paramTypes \o <<")">>
    IN IF Len(args) = 0
       THEN [selector |-> signature, params |-> <<>>]
       ELSE LET encodedParams == encodeParams(splitTypes(paramTypes), args)
            IN IF encodedParams = Thrown THEN Thrown
               ELSE [selector |-> signature, params |-> encodedParams]

\* Method names, an account address, and the calls made of the contract.
OwnsName == <<"o", "w", "n", "s">>
FeeName == <<"f", "e", "e">>
ClaimName == <<"c", "l", "a", "i", "m">>
ApproveName == <<"a", "p", "p", "r", "o", "v", "e">>
PreviewName == <<"p", "r", "e", "v", "i", "e", "w">>
BurnName == <<"b", "u", "r", "n">>
BrokenName == <<"b", "r", "o", "k", "e", "n">>
MethodNames ==
    {OwnsName, FeeName, ClaimName, ApproveName, PreviewName, BurnName, BrokenName}
SampleAddress == [i \in 1..EvmAddressLength |-> (i * 13) % 256]
Request(methodName, paramTypes, args) ==
    [methodName |-> methodName, paramTypes |-> paramTypes, args |-> args]
Requests ==
    {Request(OwnsName, TypeAddress, <<Hex(SampleAddress)>>),
     Request(FeeName, <<>>, <<>>),
     Request(ClaimName, TypeUint256, <<Uint(1)>>),
     Request(ApproveName, TypeAddress \o <<",">> \o TypeBool,
             <<Hex(SampleAddress), Bool(TRUE)>>),
     Request(PreviewName, TypeBool, <<Bool(TRUE)>>),
     Request(BurnName, TypeAddress, <<Hex(SampleAddress)>>),
     Request(BrokenName, TypeBytes32, <<Hex(<<1, 2>>)>>)}
ArgLists ==
    {<<>>, <<Hex(SampleAddress)>>, <<Bool(TRUE)>>, <<Uint(1)>>,
     <<Hex(SampleAddress), Bool(TRUE)>>}

(***************************************************************************)
(* Submitting a bridged transaction: PolkadotEVMSigner.signTransaction     *)
(* (src/src/wallet-manager.js) and EvmContract.send (src/src/evm-contract.js). *)
(***************************************************************************)
\* Blocks one submission is included in (a second one after a retraction).
MaxBlocks == 2

\* The Promise both methods return.
Pending == [state |-> "pending"]
\* A Promise settles once: later resolve or reject calls are ignored.
settle(promise, outcome) == IF promise = Pending THEN outcome ELSE promise

\* The dispatch error of a status report: none, a module error, another one.
DispatchErrors == {"none", "module", "other"}
\* api.registry.findMetaError(dispatchError.asModule)
findMetaError == [section |-> "balances", name |-> "InsufficientBalance",
                  docs |-> "Balance too low to send value."]
\* `${decoded.section}.${decoded.name}: ${decoded.docs}` and
\* dispatchError.toString()
dispatchMessage(dispatchError) ==
    IF dispatchError = "module"
    THEN <<findMetaError.section, ".", findMetaError.name, ": ", findMetaError.docs>>
    ELSE <<"BadOrigin">>

\* The hash the method resolves with: signTransaction takes it from the
\* ethereum.Executed event or, without one, the block hash; send uses tx.hash.
\* An event of the extrinsic in the reported block, and the hashes involved.
Event(section, method, data) ==
    [section |-> section, method |-> method, data |-> data]
TxHash(block) == [hex |-> "EVM transaction", block |-> block]
BlockHash(block) == [hex |-> "block", block |-> block]
ExtrinsicHash == [hex |-> "extrinsic", block |-> 0]
ExecutedEvent(block) ==
    Event("ethereum", "Executed", <<[hex |-> "from", block |-> block],
                                    [hex |-> "to", block |-> block], TxHash(block)>>)
EvmExecutedEvent == Event("evm", "Executed", <<[hex |-> "address", block |-> 0]>>)
TransferEvent == Event("balances", "Transfer", <<[hex |-> "from", block |-> 0]>>)
SuccessEvent == Event("system", "ExtrinsicSuccess", <<[hex |-> "info", block |-> 0]>>)
FailedEvent == Event("system", "ExtrinsicFailed", <<[hex |-> "error", block |-> 0]>>)
\* events.find(({ event }) => event.section === 'ethereum' &&
\*                            event.method === 'Executed')
find(events) ==
    LET matches(e) == e.section = "ethereum" /\ e.method = "Executed"
    IN IF \E i \in 1..Len(events) : matches(events[i])
       THEN events[CHOOSE i \in 1..Len(events) :
                       /\ matches(events[i])
                       /\ \A j \in 1..(i - 1) : ~matches(events[j])]
       ELSE Undefined
\* wait() of the result: signTransaction's is () => Promise.resolve({ status:
\* 1 }) and send's is async () => ({ hash }); neither asks the ledger.
Receipt == Resolved([status |-> 1])
SentReceipt == Resolved([hash |-> ExtrinsicHash])
resolvedWithBlockHash(op, events, block) ==
    [hash |-> BlockHash(block), wait |-> Receipt]
resolvedWith(op, events, block) ==
    IF op = "send" THEN [hash |-> ExtrinsicHash, wait |-> SentReceipt]
    ELSE LET executedEvent == find(events)
         IN IF executedEvent # Undefined
            THEN [hash |-> executedEvent.data[3], wait |-> Receipt]
            ELSE [hash |-> BlockHash(block), wait |-> Receipt]

\* A callback that takes any report without a dispatch error for inclusion.
resolvesOnAny(op, status) == TRUE
\* The status callback passed to signAndSend.
resolvesOn(op, status) ==
    IF op = "send" THEN status = "finalized"
    ELSE status \in {"inBlock", "finalized"}
callback(op, promise, status, dispatchError, events, block) ==
    IF dispatchError # "none"
    THEN settle(promise, Error(dispatchMessage(dispatchError)))
    ELSE IF resolvesOn(op, status)
    THEN settle(promise, resolvedWith(op, events, block))
    ELSE promise

\* The fields of a transaction signTransaction fills in, and the values a
\* caller supplies: none, a number, or a BigNumber.
Num(n) == [num |-> n]
Transaction(nonce, chainId, gasLimit, maxFeePerGas, maxPriorityFeePerGas) ==
    [nonce |-> nonce, chainId |-> chainId, gasLimit |-> gasLimit,
     maxFeePerGas |-> maxFeePerGas,
     maxPriorityFeePerGas |-> maxPriorityFeePerGas,
     to |-> Hex(SampleAddress), value |-> Undefined, data |-> Undefined]
\* A contract creation that carries a value and call data.
CreateTransaction ==
    [Transaction(Num(0), Num(1287), BN(21000), BN(2), BN(1)) EXCEPT
        !.to = Undefined, !.value = BN(5), !.data = Hex(<<1>>)]
Transactions ==
    {CreateTransaction} \cup
    {Transaction(nonce, chainId, gasLimit, maxFeePerGas, maxPriorityFeePerGas) :
        nonce \in {Undefined, Num(0)},
        chainId \in {Undefined, Num(1287)},
        gasLimit \in {Undefined, Num(21000), BN(21000)},
        maxFeePerGas \in {Undefined, BN(2), Num(0)},
        maxPriorityFeePerGas \in {Undefined, BN(1)}}
BareTransaction ==
    Transaction(Undefined, Undefined, Undefined, Undefined, Undefined)
FullTransaction == Transaction(Num(0), Num(1287), BN(21000), BN(2), BN(1))
\* What the provider's queries settle with: getTransactionCount(from,
\* 'pending'), getNetwork() and getFeeData() (whose fee fields are null on a
\* network without EIP-1559 fees).
FeeData(maxFeePerGas, maxPriorityFeePerGas) ==
    [maxFeePerGas |-> maxFeePerGas, maxPriorityFeePerGas |-> maxPriorityFeePerGas]
Answers ==
    [getTransactionCount : {Rejected, Resolved(Num(3))},
     getNetwork : {Rejected, Resolved([chainId |-> Num(1281)])},
     getFeeData : {Rejected, Resolved(FeeData(BN(9), BN(8))),
                   Resolved(FeeData(Null, Null))}]
\* The default of populatedTx.gasLimit.
DefaultGasLimit == 300000
\* a || b on these values
jsTruthy(value) == value \notin {Undefined, Null, Num(0)}
or(a, b) == IF jsTruthy(a) THEN a ELSE b
\* value.toHexString(): a TypeError on anything but a BigNumber.
toHexString(value) ==
    IF "_hex" \in DOMAIN value THEN [hex |-> value._hex] ELSE Thrown
\* typeof gasLimit === 'number' ? gasLimit : gasLimit.toNumber()
gasLimitNumber(gasLimit) ==
    IF "num" \in DOMAIN gasLimit THEN gasLimit
    ELSE IF "_hex" \in DOMAIN gasLimit THEN toNumber(gasLimit)
    ELSE Thrown
\* The queries signTransaction issues for a transaction, in its order.
needsNonce(transaction) == transaction.nonce = Undefined
needsChainId(transaction) == transaction.chainId = Undefined
needsFees(transaction) ==
    transaction.maxFeePerGas = Undefined \/ transaction.maxPriorityFeePerGas = Undefined
\* The provider queries as far as signTransaction gets: it stops at the first
\* one that rejects.
queriesOf(transaction, answers) ==
    LET stopsAtNonce == needsNonce(transaction) /\ ~answers.getTransactionCount.ok
        stopsAtChainId ==
            stopsAtNonce \/ (needsChainId(transaction) /\ ~answers.getNetwork.ok)
    IN (IF needsNonce(transaction) THEN {"getTransactionCount"} ELSE {})
       \cup (IF ~stopsAtNonce /\ needsChainId(transaction)
             THEN {"getNetwork"} ELSE {})
       \cup (IF ~stopsAtChainId /\ needsFees(transaction)
             THEN {"getFeeData"} ELSE {})
\* populatedTx once every query has resolved.
populate(transaction, answers) ==
    [transaction EXCEPT
     !.nonce = IF needsNonce(transaction)
               THEN answers.getTransactionCount.value ELSE @,
     !.chainId = IF needsChainId(transaction)
                 THEN answers.getNetwork.value.chainId ELSE @,
     !.gasLimit = IF @ = Undefined THEN Num(DefaultGasLimit) ELSE @,
     !.maxFeePerGas =
         IF needsFees(transaction)
         THEN or(@, answers.getFeeData.value.maxFeePerGas) ELSE @,
     !.maxPriorityFeePerGas =
         IF needsFees(transaction)
         THEN or(@, answers.getFeeData.value.maxPriorityFeePerGas) ELSE @]
\* The argument of api.tx.ethereum.transact, or Thrown when building it throws.
eip1559(populatedTx) ==
    LET value == IF jsTruthy(populatedTx.value)
                 THEN toHexString(populatedTx.value) ELSE [hex |-> 0]
        gasLimit == gasLimitNumber(populatedTx.gasLimit)
        maxPriorityFeePerGas == toHexString(populatedTx.maxPriorityFeePerGas)
        maxFeePerGas == toHexString(populatedTx.maxFeePerGas)
    IN IF Thrown \in {value, gasLimit, maxPriorityFeePerGas, maxFeePerGas}
       THEN Thrown
       ELSE [eip1559 |->
               [chainId |-> populatedTx.chainId, nonce |-> populatedTx.nonce,
                maxPriorityFeePerGas |-> maxPriorityFeePerGas,
                maxFeePerGas |-> maxFeePerGas, gasLimit |-> gasLimit,
                action |-> IF jsTruthy(populatedTx.to)
                           THEN [Call |-> populatedTx.to] ELSE [Create |-> TRUE],
                value |-> value,
                input |-> or(populatedTx.data, Hex(<<>>)),
                accessList |-> <<>>]]
\* The argument of api.tx.ethereum.transact in send, called without options.
transact(data) ==
    [to |-> Hex(SampleAddress), data |-> data, value |-> 0, gasLimit |-> 100000,
     maxFeePerGas |-> 1000000000, maxPriorityFeePerGas |-> 1000000000]

\* The caller of signTransaction, with the transactions it may pass.
Caller(transactions) == [IdleFlow EXCEPT !.info = [transactions |-> transactions]]

\* signTransaction(transaction) of a signer getSigner has returned, up to its
\* first await; without a chain connection it throws at once.
signTransaction ==
    /\ CanCall
    /\ wallet.impl = "unified"
    /\ wallet.provider # Null
    /\ flow.info # Undefined
    /\ \E transaction \in flow.info.transactions :
        LET entered == [wallet EXCEPT
                !.started = @ + 1, !.last = "signTransaction",
                !.wop = [NewOp("signTransaction", NULL) EXCEPT
                            !.transaction = transaction]]
        IN wallet' =
            IF wallet.api = Null
            THEN [entered EXCEPT !.wop = [@ EXCEPT
                     !.pc = "done", !.ret = Error("Not connected to Moonbeam")]]
            ELSE [entered EXCEPT !.wop = [@ EXCEPT !.pc = "awaitPopulate"]]
    /\ Frame

\* The provider queries that fill in the transaction settle: a rejection, or
\* a throw while the extrinsic is built, is rethrown as 'Failed to sign
\* transaction: ...'; otherwise the extrinsic is built and signAndSend called
\* (its executor throws, rejecting the Promise, when the injector is gone).
populateSettles ==
    /\ wallet.wop.pc = "awaitPopulate"
    /\ \E answers \in Answers :
        LET transaction == wallet.wop.transaction
            queried == queriesOf(transaction, answers)
            failed == \E q \in queried : ~answers[q].ok
            evmTx == IF failed THEN Thrown
                     ELSE eip1559(populate(transaction, answers))
            asked == [wallet EXCEPT !.wop = [@ EXCEPT
                         !.queried = queried,
                         !.answers = [q \in queried |-> answers[q]]]]
        IN wallet' =
            IF evmTx = Thrown
            THEN [asked EXCEPT !.wop = [@ EXCEPT
                     !.pc = "done", !.ret = Error("Failed to sign transaction")]]
            ELSE IF wallet.injector = Null
            THEN [asked EXCEPT !.wop = [@ EXCEPT !.evmTx = evmTx,
                     !.pc = "done", !.promise = Error(<<"TypeError">>)]]
            ELSE [asked EXCEPT !.wop = [@ EXCEPT !.evmTx = evmTx,
                     !.pc = "submitted", !.promise = Pending]]
    /\ Frame

\* send(methodName, paramTypes, ...args) up to signAndSend: the call data is
\* encoded (a throw of the encoder leaves send), the extrinsic is built and
\* signAndSend called.  `via` tells whether a built method called it.
sendFrom(via, request) ==
    LET data == encodeFunctionData(request.methodName, request.paramTypes,
                                   request.args)
        entered == [wallet EXCEPT
                       !.started = @ + 1, !.last = "send",
                       !.wop = [NewOp("send", NULL) EXCEPT
                                   !.request = request, !.via = via]]
    IN IF data = Thrown
       THEN [entered EXCEPT !.wop = [@ EXCEPT
                !.pc = "done", !.ret = Error("TypeError")]]
       ELSE [entered EXCEPT !.wop = [@ EXCEPT
                !.pc = "submitted", !.data = data, !.promise = Pending,
                !.evmTx = transact(data), !.queried = {"signAndSend"}]]
send ==
    /\ CanCall
    /\ \E request \in Requests : wallet' = sendFrom("direct", request)
    /\ Frame

\* signAndSend itself rejects (the user refuses to sign, the node refuses the
\* extrinsic): .catch(reject).
signAndSendRejects ==
    /\ wallet.wop.pc = "submitted"
    /\ wallet.wop.status = "none"
    /\ wallet' = [wallet EXCEPT !.wop = [@ EXCEPT
           !.pc = "done", !.promise = settle(@, Error(<<"Cancelled">>))]]
    /\ Frame

\* What the ledger reports next for a submitted extrinsic: ready, included in
\* a block (with that block's dispatch error and events), that block
\* retracted and the extrinsic included in another one, the block finalized.
\* A dispatch error is computed from the events of the reported block.
EventLists(block, dispatchError) ==
    IF dispatchError # "none"
    THEN {<<FailedEvent>>}
    ELSE {<<SuccessEvent>>,
          <<ExecutedEvent(block), SuccessEvent>>,
          <<TransferEvent, EvmExecutedEvent, ExecutedEvent(block), SuccessEvent>>,
          <<EvmExecutedEvent, SuccessEvent>>}
StatusReports(op) ==
    (IF op.status = "none"
     THEN {[status |-> "ready", block |-> 0, dispatchError |-> "none", events |-> <<>>]}
     ELSE {})
    \cup
    (IF op.status \in {"none", "ready", "retracted"} /\ op.block < MaxBlocks
     THEN UNION {{[status |-> "inBlock", block |-> op.block + 1,
                   dispatchError |-> e, events |-> ev] :
                      ev \in EventLists(op.block + 1, e)} : e \in DispatchErrors}
     ELSE {})
    \cup
    (IF op.status = "inBlock" /\ op.block < MaxBlocks
     THEN {[status |-> "retracted", block |-> op.block, dispatchError |-> "none",
            events |-> <<>>]}
     ELSE {})
    \cup
    (IF op.status = "inBlock"
     THEN {[status |-> "finalized", block |-> op.block,
            dispatchError |-> op.blockError, events |-> op.blockEvents]}
     ELSE {})

\* One invocation of the status callback.
statusReport ==
    /\ wallet.wop.pc = "submitted"
    /\ \E r \in StatusReports(wallet.wop) :
        wallet' = [wallet EXCEPT !.wop = [@ EXCEPT
            !.status = r.status,
            !.block = r.block,
            !.blockError = IF r.status = "inBlock" THEN r.dispatchError ELSE @,
            !.blockEvents = IF r.status = "inBlock" THEN r.events ELSE @,
            !.firstError = IF @ = "none" THEN r.dispatchError ELSE @,
            !.reports = Append(@, r),
            !.promise = callback(wallet.wop.op, @, r.status, r.dispatchError,
                                 r.events, r.block),
            !.pc = IF r.status = "finalized" THEN "done" ELSE @]]
    /\ Frame

\* A page whose manager is connected and has handed out its bridging signer.
InitSigner ==
    /\ contract = NoContract
    /\ variant = "scoped"
    /\ localStorage = [k \in StorageKeys |-> Absent]
    /\ now = 0
    /\ ticks = 0
    /\ faults = 0
    /\ calls = 0
    /\ clears = 0
    /\ wallet \in {[NoWallet EXCEPT
                      !.impl = "unified", !.ethereum = e, !.ethers = TRUE,
                      !.api = Connection(1), !.dials = 1,
                      !.selectedAccount = [address |-> a],
                      !.injector = [injectorOf |-> a],
                      !.evmAddress = substrateToEvm(a),
                      !.provider = [JsonRpcProvider |-> MOONBASE_ALPHA_RPC]] :
                      a \in ValidAccountIds, e \in BOOLEAN}
    /\ flow = Caller({BareTransaction, FullTransaction})
    /\ obs = IdleObs

NextSigner ==
    \/ signTransaction
    \/ populateSettles
    \/ send
    \/ signAndSendRejects
    \/ statusReport
    \/ disconnect

SpecSigner == InitSigner /\ [][NextSigner]_vars

\* The submission in flight or just settled, and its reports so far.
Submission == wallet.wop
ReportedDispatchError == Submission.firstError # "none"
IsCleanInclusion(r) ==
    r.dispatchError = "none" /\ r.status \in {"inBlock", "finalized"}
FirstErrorAt ==
    CHOOSE i \in 1..Len(Submission.reports) :
        /\ Submission.reports[i].dispatchError # "none"
        /\ \A j \in 1..(i - 1) : Submission.reports[j].dispatchError = "none"
CleanInclusionBeforeError ==
    \E j \in 1..(FirstErrorAt - 1) : IsCleanInclusion(Submission.reports[j])
FailedWithDispatchError ==
    Submission.promise = Error(dispatchMessage(Submission.firstError))

\* C20: whenever the status callback of a bridged transaction reports a
\* dispatch error, signTransaction fails with that error's message
\* ('section.name: docs' for a module error, its text otherwise) and returns
\* no transaction hash for that submission.
C20_DispatchErrorFails ==
    (Submission.op = "signTransaction" /\ ReportedDispatchError)
        => FailedWithDispatchError

\* C20, what the code guarantees: the dispatch error fails signTransaction
\* when no earlier report of the submission was an error-free inclusion.
C20_DispatchErrorFirstFails ==
    (Submission.op = "signTransaction" /\ ReportedDispatchError
        /\ ~CleanInclusionBeforeError)
        => FailedWithDispatchError

\* C20, EvmContract.send: it resolves on finality only, so a dispatch error
\* always fails it.
C20_SendDispatchErrorFails ==
    (Submission.op = "send" /\ ReportedDispatchError) => FailedWithDispatchError

\* C20: a hash was returned for a block that was then retracted, and the
\* extrinsic failed in the block that replaced it.
C20_Reached ==
    /\ Submission.op = "signTransaction"
    /\ ReportedDispatchError
    /\ CleanInclusionBeforeError
    /\ "hash" \in DOMAIN Submission.promise

\* The report that resolved the submission: its first error-free inclusion.
ResolvingReport ==
    Submission.reports[CHOOSE i \in 1..Len(Submission.reports) :
        /\ IsCleanInclusion(Submission.reports[i])
        /\ \A j \in 1..(i - 1) : ~IsCleanInclusion(Submission.reports[j])]
ReturnedHash ==
    /\ Submission.op = "signTransaction"
    /\ "hash" \in DOMAIN Submission.promise
CarriesExecuted(events) ==
    \E i \in 1..Len(events) :
        events[i].section = "ethereum" /\ events[i].method = "Executed"

\* C21: on successful inclusion signTransaction returns the hash carried by
\* the ethereum Executed event when the included events contain one, and the
\* hash of the including block only when they contain none.
C21_HashNormalization ==
    ReturnedHash =>
        LET r == ResolvingReport
        IN IF CarriesExecuted(r.events)
           THEN Submission.promise.hash = TxHash(r.block)
           ELSE Submission.promise.hash = BlockHash(r.block)

\* C21: the hash of the ethereum.Executed event was returned for a block
\* whose events list other events ahead of it.
C21_Witness ==
    /\ ReturnedHash
    /\ CarriesExecuted(ResolvingReport.events)
    /\ ResolvingReport.events[1] # ExecutedEvent(ResolvingReport.block)
    /\ Submission.promise.hash = TxHash(ResolvingReport.block)

(***************************************************************************)
(* The codec as functions of its arguments (checked under SpecCodec).      *)
(***************************************************************************)
\* Longest parameter list tried.
MaxParams == 2
\* Integers that fill one to four bytes.
UintSamples == {0, 1, 255, 256, 16909060}
ParamTypeNames == {TypeAddress, TypeUint256, TypeUint8, TypeBool, TypeBytes32}
ValuesOf(type) ==
    IF type = TypeAddress THEN {Hex(SampleAddress)}
    ELSE IF isUint(type) THEN {Uint(n) : n \in UintSamples}
    ELSE IF type = TypeBool THEN {Bool(TRUE), Bool(FALSE)}
    ELSE {Hex(<<1, 2>>)}
Params ==
    UNION {{[type |-> t, value |-> v] : v \in ValuesOf(t)} : t \in ParamTypeNames}
ParamLists == UNION {[1..n -> Params] : n \in 1..MaxParams}
typesOf(params) == [i \in 1..Len(params) |-> params[i].type]
valuesOf(params) == [i \in 1..Len(params) |-> params[i].value]

InitCodec ==
    /\ contract = NoContract
    /\ variant = "scoped"
    /\ localStorage = [k \in StorageKeys |-> Absent]
    /\ now = 0
    /\ ticks = 0
    /\ faults = 0
    /\ calls = 0
    /\ clears = 0
    /\ wallet = NoWallet
    /\ flow \in {[IdleFlow EXCEPT !.info = params] : params \in ParamLists}
    /\ obs = IdleObs

\* encodeParams(types, values) is called and returns or throws.
callEncodeParams ==
    /\ flow.pc = "idle"
    /\ flow' = [flow EXCEPT
           !.op = "encodeParams", !.pc = "encoded",
           !.ret = encodeParams(typesOf(flow.info), valuesOf(flow.info))]
    /\ UNCHANGED <<contract, variant, localStorage, now, ticks, faults, calls, clears,
                   wallet, obs>>

\* Each slot of the encoding is handed to decodeSingleValue with its type.
callDecodeSingleValue ==
    /\ flow.pc = "encoded"
    /\ flow.ret # Thrown
    /\ flow' = [flow EXCEPT
           !.op = "decodeSingleValue", !.pc = "done",
           !.decks = [k \in 1..Len(flow.info) |->
                        decodeSingleValue(flow.info[k].type,
                            sliceOf(flow.ret, (k - 1) * SlotLength,
                                    k * SlotLength))]]
    /\ UNCHANGED <<contract, variant, localStorage, now, ticks, faults, calls, clears,
                   wallet, obs>>

NextCodec ==
    \/ callEncodeParams
    \/ callDecodeSingleValue

SpecCodec == InitCodec /\ [][NextCodec]_vars

\* The big-endian slot of an integer below 2^32.
BigEndianSlot(n) ==
    [i \in 1..SlotLength |->
        IF i > SlotLength - 4
        THEN (n \div (256 ^ (SlotLength - i))) % 256 ELSE 0]
Encoded == flow.pc \in {"encoded", "done"}
SlotAt(k) == sliceOf(flow.ret, (k - 1) * SlotLength, k * SlotLength)

\* C22: encoding an unsigned integer as a uint256 parameter never fails and
\* yields a 32-byte big-endian slot, and decoding that slot yields the
\* integer.
C22_UintRoundTrip ==
    Encoded =>
        \A k \in 1..Len(flow.info) :
            flow.info[k].type = TypeUint256 =>
                /\ flow.ret # Thrown
                /\ SlotAt(k) = BigEndianSlot(flow.info[k].value.uint)
                /\ flow.pc = "done" =>
                       flow.decks[k] =
                           [string |-> toDecimal(flow.info[k].value.uint)]

\* C22, what the code does: a parameter list with an integer type is never
\* encoded, encodeParams throws.
C22_UintEncodingThrows ==
    Encoded =>
        ((\E k \in 1..Len(flow.info) : isUint(flow.info[k].type))
            <=> flow.ret = Thrown)
\* C22: decodeSingleValue reads a big-endian slot back as the decimal text of
\* the integer.
C22_DecodeReadsBigEndian ==
    \A n \in UintSamples :
        decodeSingleValue(TypeUint256, BigEndianSlot(n)) = [string |-> toDecimal(n)]
C22_Reached ==
    /\ Encoded
    /\ flow.info = <<[type |-> TypeUint256, value |-> Uint(1)]>>
    /\ flow.ret = Thrown

BoolSlot(b) == [i \in 1..SlotLength |-> IF i = SlotLength /\ b THEN 1 ELSE 0]
HasIntegerParam == \E k \in 1..Len(flow.info) : isUint(flow.info[k].type)
BoolRoundTripAt(k) ==
    /\ flow.ret # Thrown
    /\ SlotAt(k) = BoolSlot(flow.info[k].value.bool)
    /\ flow.pc = "done" => flow.decks[k] = Bool(flow.info[k].value.bool)

\* C23: encoding true or false as a bool parameter puts 1 or 0 in the last
\* byte of an otherwise zero 32-byte slot, and decoding that slot yields the
\* same boolean, at every parameter position.
C23_BoolRoundTrip ==
    Encoded =>
        \A k \in 1..Len(flow.info) :
            flow.info[k].type = TypeBool => BoolRoundTripAt(k)

\* C23, what the code guarantees: the round trip at every position of a
\* parameter list without an integer parameter.
C23_BoolRoundTripWithoutIntegers ==
    (Encoded /\ ~HasIntegerParam) =>
        \A k \in 1..Len(flow.info) :
            flow.info[k].type = TypeBool => BoolRoundTripAt(k)
\* C23: (uint256, bool) was not encoded; (address, bool) was, and decoded.
C23_Reached ==
    /\ Encoded
    /\ flow.info = <<[type |-> TypeUint256, value |-> Uint(1)],
                     [type |-> TypeBool, value |-> Bool(TRUE)]>>
    /\ flow.ret = Thrown
C23_ReachedWithoutIntegers ==
    /\ flow.pc = "done"
    /\ flow.info = <<[type |-> TypeAddress, value |-> Hex(SampleAddress)],
                     [type |-> TypeBool, value |-> Bool(TRUE)]>>
    /\ flow.decks[2] = Bool(TRUE)
    /\ flow.decks[1] = u8aToHex(SampleAddress)

(***************************************************************************)
(* EvmContract: calls through the built methods, call and its eth_call     *)
(* (checked under SpecContract).                                           *)
(***************************************************************************)
\* call(methodName, paramTypes, ...args) up to its await: the call data is
\* encoded (a throw of the encoder leaves call) and eth_call issued.
callFrom(via, request) ==
    LET data == encodeFunctionData(request.methodName, request.paramTypes,
                                   request.args)
        entered == [wallet EXCEPT
                       !.started = @ + 1, !.last = "call",
                       !.wop = [NewOp("call", NULL) EXCEPT
                                   !.request = request, !.via = via]]
    IN IF data = Thrown
       THEN [entered EXCEPT !.wop = [@ EXCEPT
                !.pc = "done", !.ret = Error("TypeError")]]
       ELSE [entered EXCEPT !.wop = [@ EXCEPT
                !.pc = "awaitEthCall", !.data = data,
                !.queried = {"eth_call"}]]
call ==
    /\ CanCall
    /\ \E request \in Requests : wallet' = callFrom("direct", request)
    /\ Frame

\* contract.methods[name](...args): a name buildMethods made no method for is
\* undefined, and calling it a TypeError; a method goes to call or to send.
invokeMethod ==
    /\ CanCall
    /\ \E name \in MethodNames, args \in ArgLists :
        wallet' =
            IF name \notin DOMAIN contract.methods
            THEN [wallet EXCEPT
                     !.started = @ + 1, !.last = "methods",
                     !.wop = [NewOp("methods", NULL) EXCEPT
                                 !.request = Request(name, <<>>, args),
                                 !.via = "methods", !.pc = "done",
                                 !.ret = Error("TypeError")]]
            ELSE LET method == contract.methods[name]
                     request == Request(name, method.params, args)
                 IN IF method.isView THEN callFrom("methods", request)
                    ELSE sendFrom("methods", request)
    /\ Frame

\* What eth_call returns: '0x', a slot holding 1, the same cut to 31 bytes,
\* a slot holding 7.
ReturnData ==
    {Hex(<<>>), Hex(ZeroBytes(31) \o <<1>>), Hex(ZeroBytes(30) \o <<1>>),
     Hex(ZeroBytes(31) \o <<7>>)}
\* this.abi.find(item => item.includes(`function ${methodName}`))
findAbiItem(abi, methodName) ==
    LET matches(i) == includes(abi[i], FunctionKeyword \o <<" ">> \o methodName)
    IN IF \E i \in 1..Len(abi) : matches(i)
       THEN abi[CHOOSE i \in 1..Len(abi) :
                    matches(i) /\ \A j \in 1..(i - 1) : ~matches(j)]
       ELSE Undefined
\* returnMatch[1].split(',').map(t => t.trim().split(' ')[0])
returnTypesOf(text) ==
    LET parts == split(text)
    IN [i \in 1..Len(parts) |-> firstWord(trim(parts[i]))]
\* The rest of call once eth_call has settled.
afterEthCall(abi, methodName, outcome) ==
    IF outcome = Rejected THEN Error("eth_call failed")
    ELSE LET abiItem == findAbiItem(abi, methodName)
         IN IF abiItem = Undefined THEN Error("TypeError")
            ELSE LET returnMatch == matchReturns(abiItem)
                 IN IF returnMatch = Null THEN [result |-> outcome.value]
                    ELSE decodeReturnData(returnTypesOf(returnMatch.types),
                                          outcome.value)
ethCallSettles ==
    /\ wallet.wop.pc = "awaitEthCall"
    /\ \E outcome \in {Rejected} \cup {Resolved(data) : data \in ReturnData} :
        wallet' = [wallet EXCEPT !.wop = [@ EXCEPT
            !.pc = "done",
            !.result = outcome,
            !.ret = afterEthCall(contract.abi, wallet.wop.request.methodName,
                                 outcome)]]
    /\ Frame

\* Interface descriptions: one with every kind of entry, and the two entries
\* the pages declare.
AbiSamples ==
    {<<OwnsItem, FeeItem, ClaimItem, ApproveItem, PreviewItem, EventItem,
       BrokenItem>>,
     <<OwnsItem, ClaimItem>>}

\* A page whose manager is connected and that has constructed its contract.
InitContract ==
    /\ contract \in {EvmContract(abi) : abi \in AbiSamples}
    /\ variant = "scoped"
    /\ localStorage = [k \in StorageKeys |-> Absent]
    /\ now = 0
    /\ ticks = 0
    /\ faults = 0
    /\ calls = 0
    /\ clears = 0
    /\ wallet = [NoWallet EXCEPT
                    !.impl = "unified", !.ethers = TRUE,
                    !.api = Connection(1), !.dials = 1,
                    !.selectedAccount = [address |-> "5GrwvaEF"],
                    !.injector = [injectorOf |-> "5GrwvaEF"],
                    !.evmAddress = substrateToEvm("5GrwvaEF")]
    /\ flow = IdleFlow
    /\ obs = IdleObs

NextContract ==
    \/ invokeMethod
    \/ call
    \/ send
    \/ ethCallSettles
    \/ signAndSendRejects
    \/ statusReport

SpecContract == InitContract /\ [][NextContract]_vars

\* The contract operation in flight or last finished, its method, and the
\* entry of the interface description its method was built from.
Operation == wallet.wop
Described(name) ==
    \E i \in 1..Len(contract.abi) :
        Builds(contract.abi[i]) /\ matchFunction(contract.abi[i]).name = name
EntryOf(name) ==
    contract.abi[CHOOSE i \in 1..Len(contract.abi) :
        Builds(contract.abi[i]) /\ matchFunction(contract.abi[i]).name = name]
\* The entry declares the mutability view or pure: one of the two words
\* follows its parameter list.
DeclaredRead(item) ==
    LET rest == SubSeq(item, skipUntil(item, 1, {")"}), Len(item))
    IN includes(rest, <<" ">> \o ViewKeyword) \/ includes(rest, <<" ">> \o PureKeyword)
IsRead(name) == Described(name) /\ DeclaredRead(EntryOf(name))
ExecutedAsRead == Operation.op = "call" /\ "eth_call" \in Operation.queried

\* C24: a method is executed through the read path (eth_call, no extrinsic)
\* if and only if the interface description declares it view or pure; a
\* method not so declared is never executed as a read, and a read invoked on
\* it is rejected.
C24_ReadWriteDispatch ==
    /\ (Operation.via = "methods" /\ Operation.op \in {"call", "send"}) =>
           (Operation.op = "call" <=> IsRead(Operation.request.methodName))
    /\ ExecutedAsRead => IsRead(Operation.request.methodName)
    /\ Operation.op = "call" => "signAndSend" \notin Operation.queried

\* C24, what the code guarantees: a built method goes to the read path
\* exactly when the text of its entry holds 'view' or 'pure' anywhere, and
\* the read path submits no extrinsic.
C24_DispatchBySubstring ==
    /\ (Operation.via = "methods" /\ Operation.op \in {"call", "send"}) =>
           (Operation.op = "call" <=>
                isView(EntryOf(Operation.request.methodName)))
    /\ Operation.op = "call" => Operation.queried \subseteq {"eth_call"}
\* C24: call('approve', 'address,bool', ...) was executed with eth_call, and
\* the method built for 'function preview(bool) returns (bool)' was too.
C24_Reached ==
    /\ ExecutedAsRead
    /\ Operation.via = "direct"
    /\ Operation.request.methodName = ApproveName
    /\ ~IsRead(ApproveName)
C24_ReachedBySubstring ==
    /\ ExecutedAsRead
    /\ Operation.via = "methods"
    /\ Operation.request.methodName = PreviewName
    /\ ~IsRead(PreviewName)

\* The encoder has a branch for the type.
EncoderSupports(type) == type = TypeAddress \/ isUint(type) \/ type = TypeBool
HasUnsupportedParam(request) ==
    /\ request.args # <<>>
    /\ \E i \in 1..Len(splitTypes(request.paramTypes)) :
           ~EncoderSupports(splitTypes(request.paramTypes)[i])
IsError(value) == "error" \in DOMAIN value
Started == Operation.op \in {"call", "send", "methods"}
\* eth_call returned fewer bytes than the declared return types take.
ShortReturn ==
    /\ Operation.op = "call" /\ Operation.pc = "done"
    /\ Operation.result # Undefined /\ Operation.result # Rejected
    /\ Described(Operation.request.methodName)
    /\ matchReturns(EntryOf(Operation.request.methodName)) # Null
    /\ Len(hexToU8a(Operation.result.value)) <
           SlotLength * Len(returnTypesOf(
               matchReturns(EntryOf(Operation.request.methodName)).types))

\* C25: calling a method absent from the interface description, using a
\* malformed entry or a parameter type the encoder does not support, or
\* decoding return data shorter than the declared return types require,
\* fails with an error; none yields an encoded call or a decoded value.
C25_EncodingErrorsNotSilent ==
    /\ (Started /\ (~Described(Operation.request.methodName)
                      \/ HasUnsupportedParam(Operation.request))) =>
           /\ Operation.data = Undefined
           /\ Operation.pc = "done" /\ IsError(Operation.ret)
    /\ ShortReturn => IsError(Operation.ret)

\* C25, what the code guarantees: calling through the built methods a name
\* the interface description has no well-formed entry for throws before
\* anything is encoded.
C25_UndescribedMethodThrows ==
    (Operation.via = "methods" /\ ~Described(Operation.request.methodName)) =>
        /\ Operation.data = Undefined
        /\ Operation.pc = "done" /\ Operation.ret = Error("TypeError")
\* C25: 31 bytes came back for 'returns (bool)' and call returned false.
C25_Reached ==
    /\ ShortReturn
    /\ Operation.request.methodName = OwnsName
    /\ Operation.result = Resolved(Hex(ZeroBytes(30) \o <<1>>))
    /\ Operation.ret = Bool(FALSE)
\* C25: send('burn', 'address', ...) was encoded and submitted though no
\* entry describes burn.
C25_ReachedAbsent ==
    /\ Operation.op = "send"
    /\ Operation.request.methodName = BurnName
    /\ Operation.pc = "submitted"
    /\ Operation.data # Undefined
\* C25: a bytes32 argument was encoded as an empty slot.
C25_ReachedUnsupported ==
    /\ Operation.op = "call"
    /\ Operation.request.paramTypes = TypeBytes32
    /\ Operation.data # Undefined
    /\ Operation.data.params = ZeroBytes(SlotLength)

(***************************************************************************)
(* The reader's decryption (src/README.md, "Decryption"), checked under    *)
(* SpecDecrypt.                                                            *)
(***************************************************************************)
\* Longest plaintext tried, in bytes.
MaxPlainLen == 2
\* data.slice(0, 12), data.slice(12, 28): the nonce and the tag.
NonceLength == 12
TagLength == 16
\* Lengths in bytes of the raw keys importKey accepts for AES.
AesKeyLengths == {16, 24, 32}

\* AES-GCM as an ideal authenticated cipher over the inputs of the model: the
\* key stream depends on key and nonce, and the tag names key, nonce and
\* ciphertext, so no two of the model's inputs share a tag.
keyStream(key, iv, i) == (key[1] * 3 + Len(key) + iv[1] + 7 * i) % 256
RECURSIVE weighted(_, _)
weighted(bytes, i) ==
    IF i > Len(bytes) THEN 0 ELSE i * bytes[i] + weighted(bytes, i + 1)
gcmTag(key, iv, ciphertext) ==
    [j \in 1..TagLength |->
        IF j = 1 THEN key[1]
        ELSE IF j = 2 THEN Len(key)
        ELSE IF j = 3 THEN weighted(iv, 1) % 256
        ELSE IF j = 4 THEN Len(iv)
        ELSE IF j = 5 THEN Len(ciphertext)
        ELSE IF j - 5 <= Len(ciphertext) THEN ciphertext[j - 5]
        ELSE 0]
gcmEncrypt(key, iv, plaintext) ==
    LET ciphertext == [i \in 1..Len(plaintext) |->
                          (plaintext[i] + keyStream(key, iv, i)) % 256]
    IN ciphertext \o gcmTag(key, iv, ciphertext)
\* A decrypt that releases the plaintext without comparing the tag.
subtleDecryptUnverified(key, iv, data) ==
    IF Len(data) < TagLength \/ iv = <<>> THEN Error("OperationError")
    ELSE LET ciphertext == SubSeq(data, 1, Len(data) - TagLength)
         IN [plaintext |->
                [i \in 1..Len(ciphertext) |->
                    (ciphertext[i] + 256 - keyStream(key, iv, i)) % 256]]
\* crypto.subtle.decrypt({ name: 'AES-GCM', iv, tagLength: 128 }, key, data):
\* the plaintext, or an OperationError when data is shorter than a tag or its
\* last 16 bytes are not the tag of the rest.
subtleDecrypt(key, iv, data) ==
    IF Len(data) < TagLength \/ iv = <<>> THEN Error("OperationError")
    ELSE LET ciphertext == SubSeq(data, 1, Len(data) - TagLength)
             tag == SubSeq(data, Len(data) - TagLength + 1, Len(data))
         IN IF tag # gcmTag(key, iv, ciphertext) THEN Error("OperationError")
            ELSE [plaintext |->
                    [i \in 1..Len(ciphertext) |->
                        (ciphertext[i] + 256 - keyStream(key, iv, i)) % 256]]
\* crypto.subtle.importKey('raw', bytes, { name: 'AES-GCM' }, ...)
importKey(bytes) ==
    IF Len(bytes) \in AesKeyLengths THEN [key |-> bytes] ELSE Error("DataError")
hexToBytes(keyHex) == keyHex.hex

\* What decryptAES256GCM hands to the primitive.
ivOf(data) == sliceOf(data, 0, NonceLength)
authTagOf(data) == sliceOf(data, NonceLength, NonceLength + TagLength)
ciphertextOf(data) == SubSeq(data, NonceLength + TagLength + 1, Len(data))
sealedTagFirst(data) == authTagOf(data) \o ciphertextOf(data)
sealed(data) == ciphertextOf(data) \o authTagOf(data)

\* decryptAES256GCM(encryptedData, keyHex) up to its first await.
decryptAES256GCM ==
    /\ flow.pc = "idle"
    /\ flow' = [flow EXCEPT !.op = "decryptAES256GCM", !.pc = "awaitImportKey"]
    /\ UNCHANGED <<contract, variant, localStorage, now, ticks, faults, calls,
                   clears, wallet, obs>>
\* importKey settles: a rejection leaves decryptAES256GCM, else decrypt is
\* called with the nonce and with the ciphertext followed by the tag.
importKeySettles ==
    /\ flow.pc = "awaitImportKey"
    /\ LET key == importKey(hexToBytes(flow.info.keyHex))
       IN flow' = IF "error" \in DOMAIN key
                  THEN [flow EXCEPT !.pc = "done", !.ret = key]
                  ELSE [flow EXCEPT !.pc = "awaitDecrypt", !.deck = key]
    /\ UNCHANGED <<contract, variant, localStorage, now, ticks, faults, calls,
                   clears, wallet, obs>>
\* decrypt settles, and its result or rejection is decryptAES256GCM's; the
\* reader's loadDeck goes on with a result and ends with a rejection.
subtleDecryptSettles ==
    /\ flow.pc = "awaitDecrypt"
    /\ LET decrypted == subtleDecrypt(flow.deck.key,
                                      ivOf(flow.info.encryptedData),
                                      sealed(flow.info.encryptedData))
       IN flow' = [flow EXCEPT
              !.pc = IF flow.op = "loadDeck" /\ "plaintext" \in DOMAIN decrypted
                     THEN "awaitZip" ELSE "done",
              !.ret = decrypted]
    /\ UNCHANGED <<contract, variant, localStorage, now, ticks, faults, calls,
                   clears, wallet, obs>>

\* The inputs tried: packages sealed as nonce, tag, ciphertext under a 32-byte
\* key, whole, cut short or with one bit flipped, and the keys handed in.
PlainBytes == {0, 200}
Plaintexts == UNION {[1..n -> PlainBytes] : n \in 0..MaxPlainLen}
KeyA == Hex([i \in 1..32 |-> 17])
KeyB == Hex([i \in 1..32 |-> 34])
KeyHalf == Hex([i \in 1..16 |-> 17])
KeyShort == Hex([i \in 1..31 |-> 17])
KeyEmpty == Hex(<<>>)
SealingKeys == {KeyA, KeyB}
Keys == {KeyA, KeyB, KeyHalf, KeyShort, KeyEmpty}
Nonce == [i \in 1..NonceLength |-> 5 + i]
package(plaintext, keyHex) ==
    LET out == gcmEncrypt(hexToBytes(keyHex), Nonce, plaintext)
        n == Len(out)
    IN Nonce \o SubSeq(out, n - TagLength + 1, n) \o SubSeq(out, 1, n - TagLength)
flipBit(byte) == IF byte % 2 = 0 THEN byte + 1 ELSE byte - 1
flipAt(bytes, i) == [bytes EXCEPT ![i] = flipBit(@)]
CutLengths == {0, NonceLength - 1, NonceLength + TagLength - 1, NonceLength + TagLength}
Inputs ==
    UNION {
        LET whole == package(plaintext, sealedWith)
        IN    {[encryptedData |-> whole, keyHex |-> keyHex,
                plaintext |-> plaintext, sealedWith |-> sealedWith,
                damage |-> "none"] : keyHex \in Keys}
           \cup {[encryptedData |-> SubSeq(whole, 1, n), keyHex |-> keyHex,
                  plaintext |-> plaintext, sealedWith |-> sealedWith,
                  damage |-> "cut"] : n \in CutLengths \cap 0..(Len(whole) - 1),
                                      keyHex \in {KeyA, KeyB}}
           \cup {[encryptedData |-> flipAt(whole, i), keyHex |-> sealedWith,
                  plaintext |-> plaintext, sealedWith |-> sealedWith,
                  damage |-> "flip"] : i \in 1..Len(whole)}
        : plaintext \in Plaintexts, sealedWith \in SealingKeys}

InitDecrypt ==
    /\ variant = "scoped"
    /\ localStorage = [k \in StorageKeys |-> Absent]
    /\ now = 0
    /\ ticks = 0
    /\ faults = 0
    /\ calls = 0
    /\ clears = 0
    /\ wallet = NoWallet
    /\ obs = IdleObs
    /\ contract = NoContract
    /\ flow \in {[IdleFlow EXCEPT !.info = input] : input \in Inputs}
NextDecrypt == decryptAES256GCM \/ importKeySettles \/ subtleDecryptSettles
SpecDecrypt == InitDecrypt /\ [][NextDecrypt]_vars

Decrypted == flow.op = "decryptAES256GCM" /\ flow.pc = "done"
KeyLength256 == 32
\* The buffer is not a whole package sealed under the key handed in.
Unauthentic(input) ==
    \/ Len(input.encryptedData) < NonceLength + TagLength
    \/ Len(hexToBytes(input.keyHex)) # KeyLength256
    \/ input.damage # "none"
    \/ input.keyHex # input.sealedWith

C26_ReachedFlip ==
    /\ Decrypted
    /\ flow.info.damage = "flip"
    /\ Len(flow.info.encryptedData) > NonceLength + TagLength
    /\ flow.info.encryptedData[NonceLength + TagLength + 1]
           # package(flow.info.plaintext, flow.info.sealedWith)[NonceLength + TagLength + 1]
    /\ "error" \in DOMAIN flow.ret
\* A key of the wrong length has been refused by importKey.
C26_ReachedKeyLength ==
    Decrypted /\ flow.info.keyHex = KeyShort /\ flow.ret = Error("DataError")

\* C27: a buffer laid out as 12-byte nonce, 16-byte tag, ciphertext decrypts
\* under the sealing key to exactly the plaintext, and the primitive is handed
\* bytes 0-11 as nonce and the ciphertext followed by the tag.
C27_DecryptInverts ==
    /\ flow.info.damage = "none" /\ flow.info.keyHex = flow.info.sealedWith =>
        /\ Decrypted => flow.ret = [plaintext |-> flow.info.plaintext]
        /\ flow.pc = "awaitDecrypt" =>
              /\ ivOf(flow.info.encryptedData) = Nonce
              /\ sealed(flow.info.encryptedData)
                     = gcmEncrypt(flow.deck.key, Nonce, flow.info.plaintext)
\* A package with a plaintext of the greatest length has been decrypted to it.
C27_Witness ==
    /\ Decrypted
    /\ flow.info.damage = "none"
    /\ flow.info.keyHex = flow.info.sealedWith
    /\ Len(flow.info.plaintext) = MaxPlainLen
    /\ flow.ret = [plaintext |-> flow.info.plaintext]

(***************************************************************************)
(* The reader's loadDeck (src/README.md, "Code Highlights"), checked under *)
(* SpecReader.                                                             *)
(***************************************************************************)
\* resolveIPFS(uri)
resolveIPFS(uri) ==
    IF startsWith(uri, IpfsScheme) THEN IpfsGateway \o slice(uri, 7) ELSE uri
\* contract.balanceOf settles: a rejection, or a balance (a bigint).
ReaderBalanceOutcomes == {Rejected} \cup {Resolved(b) : b \in {0, 1, UINT256_MAX}}
\* contract.getContent settles: a rejection, or the record with the pointer
\* to the package and its key.
ReaderContentOutcomes ==
    {Rejected} \cup {Resolved([payloadURI |-> uri, encryptionKey |-> keyHex]) :
                        uri \in {IpfsURI, HttpsURI}, keyHex \in SealingKeys}
\* The packages a fetch can deliver.
FetchedInputs == {input \in Inputs : input.keyHex = input.sealedWith}
\* The ownership check that lets a holder through without a pass.
deniesNever(balance) == FALSE
\* balance === 0n
denies(balance) == balance = 0

\* loadDeck(contentId) up to its first await: balanceOf is asked.
readerLoadDeck ==
    /\ flow.pc = "idle"
    /\ \E contentId \in ContentIds :
        /\ flow' = [flow EXCEPT !.op = "loadDeck", !.pc = "awaitBalance",
                                !.id = contentId]
        /\ obs' = [obs EXCEPT !.reads = Append(@, [method |-> "balanceOf",
                                                   id |-> contentId])]
    /\ UNCHANGED <<contract, variant, localStorage, now, ticks, faults, calls,
                   clears, wallet>>
\* balanceOf settles: a rejection or a zero balance ends loadDeck with an
\* error, any other balance asks getContent.
readerBalanceSettles ==
    /\ flow.op = "loadDeck" /\ flow.pc = "awaitBalance"
    /\ \E outcome \in ReaderBalanceOutcomes :
        /\ obs' = [obs EXCEPT
               !.balances = Append(@, [id |-> flow.id, outcome |-> outcome]),
               !.reads = IF outcome.ok /\ ~denies(outcome.value)
                         THEN Append(@, [method |-> "getContent", id |-> flow.id])
                         ELSE @]
        /\ flow' = IF ~outcome.ok
                   THEN [flow EXCEPT !.pc = "done", !.ret = Error("rejected")]
                   ELSE IF denies(outcome.value)
                   THEN [flow EXCEPT !.pc = "done",
                                     !.ret = Error("No access pass")]
                   ELSE [flow EXCEPT !.pc = "awaitContent"]
    /\ UNCHANGED <<contract, variant, localStorage, now, ticks, faults, calls,
                   clears, wallet>>
\* getContent settles: the package is fetched from the resolved pointer.
readerContentSettles ==
    /\ flow.op = "loadDeck" /\ flow.pc = "awaitContent"
    /\ \E outcome \in ReaderContentOutcomes :
        IF ~outcome.ok
        THEN /\ flow' = [flow EXCEPT !.pc = "done", !.ret = Error("rejected")]
             /\ obs' = obs
        ELSE /\ flow' = [flow EXCEPT !.pc = "awaitFetch", !.deck = outcome.value,
                             !.fetching = resolveIPFS(outcome.value.payloadURI)]
             /\ obs' = [obs EXCEPT !.fetches =
                            Append(@, resolveIPFS(outcome.value.payloadURI))]
    /\ UNCHANGED <<contract, variant, localStorage, now, ticks, faults, calls,
                   clears, wallet>>
\* fetch settles: a rejection ends loadDeck, a response has its body read.
readerFetchSettles ==
    /\ flow.op = "loadDeck" /\ flow.pc = "awaitFetch"
    /\ \E ok \in BOOLEAN :
        flow' = IF ok THEN [flow EXCEPT !.pc = "awaitBuffer"]
                ELSE [flow EXCEPT !.pc = "done", !.ret = Error("rejected")]
    /\ UNCHANGED <<contract, variant, localStorage, now, ticks, faults, calls,
                   clears, wallet, obs>>
\* arrayBuffer settles: decryptAES256GCM is called with the body and with
\* content.encryptionKey.
readerBufferSettles ==
    /\ flow.op = "loadDeck" /\ flow.pc = "awaitBuffer"
    /\ \E ok \in BOOLEAN :
        IF ~ok THEN flow' = [flow EXCEPT !.pc = "done", !.ret = Error("rejected")]
        ELSE \E input \in FetchedInputs :
                flow' = [flow EXCEPT
                    !.pc = "awaitImportKey",
                    !.info = [input EXCEPT !.keyHex = flow.deck.encryptionKey]]
    /\ UNCHANGED <<contract, variant, localStorage, now, ticks, faults, calls,
                   clears, wallet, obs>>
\* JSZip.loadAsync, the manifest and the images: the archive unpacks to
\* { manifest, images }, or one of the steps throws.
readerUnpackSettles ==
    /\ flow.op = "loadDeck" /\ flow.pc = "awaitZip"
    /\ \E ok \in BOOLEAN :
        flow' = [flow EXCEPT
            !.pc = "done",
            !.ret = IF ok THEN [manifest |-> "manifest", images |-> flow.ret.plaintext]
                    ELSE Error("unpack")]
    /\ UNCHANGED <<contract, variant, localStorage, now, ticks, faults, calls,
                   clears, wallet, obs>>

InitReader ==
    /\ variant = "scoped"
    /\ localStorage = [k \in StorageKeys |-> Absent]
    /\ now = 0
    /\ ticks = 0
    /\ faults = 0
    /\ calls = 0
    /\ clears = 0
    /\ wallet = NoWallet
    /\ obs = IdleObs
    /\ contract = NoContract
    /\ flow = IdleFlow
NextReader ==
    \/ readerLoadDeck
    \/ readerBalanceSettles
    \/ readerContentSettles
    \/ readerFetchSettles
    \/ readerBufferSettles
    \/ importKeySettles
    \/ subtleDecryptSettles
    \/ readerUnpackSettles
SpecReader == InitReader /\ [][NextReader]_vars

ReaderFlow == flow.op = "loadDeck"
\* The ownership check has completed with a non-zero balance.
OwnershipConfirmed ==
    /\ Len(obs.balances) = 1
    /\ obs.balances[1].id = flow.id
    /\ obs.balances[1].outcome.ok
    /\ obs.balances[1].outcome.value # 0
KeyRead == \E i \in 1..Len(obs.reads) : obs.reads[i].method = "getContent"
PackageFetched == obs.fetches # <<>>
DecryptAttempted == flow.info # Undefined
\* C28: the key is read, the package is fetched and decryption is attempted
\* only after the ownership check for the content has completed with a
\* non-zero balance; after a zero balance or a failed check none of the three
\* has happened and loadDeck has ended in an error.
C28_PipelineOrdering ==
    ReaderFlow =>
        /\ (KeyRead \/ PackageFetched \/ DecryptAttempted) => OwnershipConfirmed
        /\ Len(obs.balances) = 1 /\ ~OwnershipConfirmed =>
              /\ flow.pc = "done"
              /\ "error" \in DOMAIN flow.ret
              /\ ~KeyRead /\ ~PackageFetched /\ ~DecryptAttempted
\* A holder's loadDeck has read the key, fetched, decrypted and unpacked.
C28_Witness ==
    /\ ReaderFlow
    /\ OwnershipConfirmed
    /\ KeyRead /\ PackageFetched /\ DecryptAttempted
    /\ flow.pc = "done"
    /\ "manifest" \in DOMAIN flow.ret
\* A zero balance has ended loadDeck with "No access pass".
C28_ReachedDenied ==
    /\ ReaderFlow
    /\ Len(obs.balances) = 1
    /\ obs.balances[1].outcome = Resolved(0)
    /\ flow.ret = Error("No access pass")

(***************************************************************************)
(* signTransaction over every transaction a caller may pass (SpecPopulate). *)
(***************************************************************************)
InitPopulate ==
    /\ contract = NoContract
    /\ variant = "scoped"
    /\ localStorage = [k \in StorageKeys |-> Absent]
    /\ now = 0
    /\ ticks = 0
    /\ faults = 0
    /\ calls = 0
    /\ clears = 0
    /\ wallet \in {[NoWallet EXCEPT
                      !.impl = "unified", !.ethereum = e, !.ethers = TRUE,
                      !.api = Connection(1), !.dials = 1,
                      !.selectedAccount = [address |-> a],
                      !.injector = [injectorOf |-> a],
                      !.evmAddress = substrateToEvm(a),
                      !.provider = [JsonRpcProvider |-> MOONBASE_ALPHA_RPC]] :
                      a \in ValidAccountIds, e \in BOOLEAN}
    /\ flow = Caller(Transactions)
    /\ obs = IdleObs
NextPopulate ==
    \/ signTransaction
    \/ populateSettles
    \/ disconnect
SpecPopulate == InitPopulate /\ [][NextPopulate]_vars

Submitted ==
    /\ wallet.wop.op = "signTransaction"
    /\ wallet.wop.evmTx # Undefined
Supplied(field) == wallet.wop.transaction[field] # Undefined
\* The value of a field as the instruction carries it: a gas limit as a
\* number, a fee as the hexadecimal text of its BigNumber.
Carried(field, value) ==
    IF field = "gasLimit" THEN gasLimitNumber(value)
    ELSE IF field \in {"maxFeePerGas", "maxPriorityFeePerGas"}
    THEN (IF "num" \in DOMAIN value THEN [hex |-> value.num] ELSE toHexString(value))
    ELSE value
QueryOf(field) ==
    IF field = "nonce" THEN "getTransactionCount"
    ELSE IF field = "chainId" THEN "getNetwork"
    ELSE "getFeeData"
\* What the query, or the default, gives for an absent field.
Filled(field) ==
    IF field = "gasLimit" THEN Num(DefaultGasLimit)
    ELSE IF field = "nonce" THEN wallet.wop.answers.getTransactionCount.value
    ELSE IF field = "chainId" THEN wallet.wop.answers.getNetwork.value.chainId
    ELSE wallet.wop.answers.getFeeData.value[field]
ResolvedFields ==
    {"nonce", "chainId", "gasLimit", "maxFeePerGas", "maxPriorityFeePerGas"}
QueriedFields == ResolvedFields \ {"gasLimit"}
SuppliedKept(field) ==
    Supplied(field) =>
        wallet.wop.evmTx.eip1559[field]
            = Carried(field, wallet.wop.transaction[field])
AbsentFilled(field) ==
    ~Supplied(field) =>
        wallet.wop.evmTx.eip1559[field] = Carried(field, Filled(field))
QueriedOnlyForAbsent ==
    \A q \in wallet.wop.queried :
        \E field \in QueriedFields : QueryOf(field) = q /\ ~Supplied(field)

\* C29: in the submitted instruction each of nonce, chainId, gasLimit,
\* maxFeePerGas and maxPriorityFeePerGas is the caller's value when one was
\* supplied, and the query's answer (the default 300000 for gasLimit) when it
\* was absent; a query is issued only for a field that is absent.
C29_FieldResolution ==
    Submitted =>
        /\ \A field \in ResolvedFields : SuppliedKept(field) /\ AbsentFilled(field)
        /\ QueriedOnlyForAbsent
\* What the code guarantees: the same for nonce, chainId and gasLimit and for
\* every fee supplied as a BigNumber.
C29_BigNumberFeesKept ==
    Submitted =>
        /\ \A field \in ResolvedFields :
              /\ (field \in {"nonce", "chainId", "gasLimit"}
                    \/ "_hex" \in DOMAIN wallet.wop.transaction[field])
                 => SuppliedKept(field)
              /\ AbsentFilled(field)
        /\ QueriedOnlyForAbsent
\* A transaction whose maxFeePerGas is the number 0 has been submitted.
C29_Reached ==
    /\ Submitted
    /\ wallet.wop.transaction.maxFeePerGas = Num(0)
    /\ wallet.wop.evmTx.eip1559.maxFeePerGas = [hex |-> 9]
\* A transaction with a nonce of 0 and no other field has been submitted.
C29_ReachedNonceZero ==
    /\ Submitted
    /\ wallet.wop.transaction = [BareTransaction EXCEPT !.nonce = Num(0)]
    /\ wallet.wop.evmTx.eip1559.nonce = Num(0)
    /\ wallet.wop.queried = {"getNetwork", "getFeeData"}

Included(r) == r.status \in {"inBlock", "finalized"}
InclusionReported ==
    \E i \in 1..Len(Submission.reports) : Included(Submission.reports[i])
SignerSubmission == Submission.op = "signTransaction" /\ Submission.promise # Undefined
\* C30: the promise of signTransaction is resolved only once a status
\* callback has reported in-block or finalized; while the submission is under
\* way and only earlier statuses have been reported it is pending; once
\* settled it keeps its outcome; and the result's wait() is an already
\* resolved promise that asks the ledger nothing.
C30_InclusionBeforeResult ==
    /\ [](SignerSubmission =>
            /\ ReturnedHash => InclusionReported /\ Submission.promise.wait = Receipt
            /\ Submission.pc = "submitted" /\ ~InclusionReported =>
                   Submission.promise = Pending)
    /\ [][SignerSubmission /\ Submission.promise # Pending
            /\ wallet'.started = wallet.started
          => wallet'.wop.promise = Submission.promise
             /\ wallet'.wop.queried = Submission.queried]_vars
\* After ready and an inclusion in a block the promise has been resolved,
\* and a later report (the finalization) has left the result as it was.
C30_Witness ==
    /\ ReturnedHash
    /\ Len(Submission.reports) >= 3
    /\ Submission.reports[1].status = "ready"
    /\ Submission.reports[2].status = "inBlock"
    /\ Submission.status = "finalized"
    /\ Submission.promise.wait = Receipt
\* Only ready has been reported, and the promise is pending.
C30_ReachedPending ==
    /\ SignerSubmission
    /\ Submission.pc = "submitted"
    /\ Len(Submission.reports) = 1
    /\ Submission.reports[1].status = "ready"
    /\ Submission.promise = Pending

FeeMarketFields ==
    {"chainId", "nonce", "maxPriorityFeePerGas", "maxFeePerGas", "gasLimit",
     "action", "value", "input"}
IsFeeMarket(tx) ==
    /\ DOMAIN tx = {"eip1559"}
    /\ FeeMarketFields \subseteq DOMAIN tx.eip1559
\* C31: every instruction handed to api.tx.ethereum.transact, by the bridging
\* signer's signTransaction or by EvmContract.send, is of the fee-market
\* (eip1559) variant and carries chain id, nonce, fee fields, gas limit,
\* action, value and input.
C31_FeeMarketFormat ==
    Submission.evmTx # Undefined => IsFeeMarket(Submission.evmTx)
\* What the code guarantees: signTransaction submits the fee-market variant.
C31_SignerUsesFeeMarket ==
    Submission.op = "signTransaction" /\ Submission.evmTx # Undefined =>
        IsFeeMarket(Submission.evmTx)
\* send has submitted an instruction that is no variant at all.
C31_Reached ==
    /\ Submission.op = "send"
    /\ Submission.pc = "submitted"
    /\ DOMAIN Submission.evmTx
          = {"to", "data", "value", "gasLimit", "maxFeePerGas", "maxPriorityFeePerGas"}
\* signTransaction has submitted a fee-market instruction.
C31_ReachedSigner ==
    /\ Submission.op = "signTransaction"
    /\ Submission.pc = "submitted"
    /\ IsFeeMarket(Submission.evmTx)

(***************************************************************************)
(* decodeReturnData over ABI-encoded return data that holds a string       *)
(* (checked under SpecDecode).                                             *)
(***************************************************************************)
\* Longest string returned, in bytes.
MaxTextLen == 2
TextBytes == {65, 200}
Texts == UNION {[1..n -> TextBytes] : n \in 0..MaxTextLen}
Text(bytes) == [text |-> bytes]
\* What eth_call returns for a tuple of values: one 32-byte head slot per
\* value, holding the value or, for a string, the offset of its tail; a tail
\* is the 32-byte length followed by the bytes, padded to whole slots.
abiWord(n) == ZeroBytes(SlotLength - 1) \o <<n>>
abiPadded(bytes) ==
    bytes \o ZeroBytes((SlotLength - (Len(bytes) % SlotLength)) % SlotLength)
abiTail(value) ==
    IF "text" \in DOMAIN value
    THEN abiWord(Len(value.text)) \o abiPadded(value.text)
    ELSE <<>>
abiStatic(value) ==
    IF "uint" \in DOMAIN value THEN abiWord(value.uint)
    ELSE IF "bool" \in DOMAIN value THEN abiWord(IF value.bool THEN 1 ELSE 0)
    ELSE ZeroBytes(SlotLength - Len(value.hex)) \o value.hex
RECURSIVE abiEncodeFrom(_, _, _, _)
abiEncodeFrom(values, i, head, tail) ==
    IF i > Len(values) THEN head \o tail
    ELSE IF "text" \in DOMAIN values[i]
    THEN abiEncodeFrom(values, i + 1,
             head \o abiWord(Len(values) * SlotLength + Len(tail)),
             tail \o abiTail(values[i]))
    ELSE abiEncodeFrom(values, i + 1, head \o abiStatic(values[i]), tail)
abiEncode(values) == abiEncodeFrom(values, 1, <<>>, <<>>)

\* The returns lists tried: a string alone, and a string at each position of
\* a tuple (getContentInfo returns its name second).
Returned(type, value) == [type |-> type, value |-> value]
ReturnLists ==
    UNION {{<<Returned(TypeString, Text(t))>>,
            <<Returned(TypeString, Text(t)), Returned(TypeUint256, Uint(n))>>,
            <<Returned(TypeUint256, Uint(n)), Returned(TypeString, Text(t))>>,
            <<Returned(TypeAddress, Hex(SampleAddress)),
              Returned(TypeString, Text(t)), Returned(TypeBool, Bool(n = 1))>>}
           : t \in Texts, n \in {1, 7}}

InitDecode ==
    /\ contract = NoContract
    /\ variant = "scoped"
    /\ localStorage = [k \in StorageKeys |-> Absent]
    /\ now = 0
    /\ ticks = 0
    /\ faults = 0
    /\ calls = 0
    /\ clears = 0
    /\ wallet = NoWallet
    /\ flow \in {[IdleFlow EXCEPT !.info = returned] : returned \in ReturnLists}
    /\ obs = IdleObs
\* decodeReturnData(types, data) is called with the encoded return data.
callDecodeReturnData ==
    /\ flow.pc = "idle"
    /\ flow' = [flow EXCEPT
           !.op = "decodeReturnData", !.pc = "done",
           !.ret = decodeReturnData(
                       [k \in 1..Len(flow.info) |-> flow.info[k].type],
                       Hex(abiEncode([k \in 1..Len(flow.info) |->
                                         flow.info[k].value])))]
    /\ UNCHANGED <<contract, variant, localStorage, now, ticks, faults, calls,
                   clears, wallet, obs>>
\* getContentInfo(contentId): its call('getContentInfo', 'uint256', contentId)
\* encodes the content id before anything is asked of the ledger.
getContentInfo ==
    /\ flow.pc = "idle"
    /\ \E contentId \in ContentIds :
        LET data == encodeFunctionData(<<"getContentInfo">>, TypeUint256,
                                       <<Uint(contentId)>>)
        IN flow' = [flow EXCEPT
               !.op = "getContentInfo", !.id = contentId,
               !.pc = IF data = Thrown THEN "done" ELSE "awaitEthCall",
               !.ret = IF data = Thrown THEN Error("TypeError") ELSE @]
    /\ UNCHANGED <<contract, variant, localStorage, now, ticks, faults, calls,
                   clears, wallet, obs>>
NextDecode == callDecodeReturnData \/ getContentInfo
SpecDecode == InitDecode /\ [][NextDecode]_vars

DecodedReturn == flow.op = "decodeReturnData" /\ flow.pc = "done"
StringAt(k) == flow.info[k].type = TypeString
\* C32: the string of ABI-encoded return data is decoded to exactly that
\* string, both when it is the only return value and when it is one element
\* of a tuple.
C32_StringDecodingMirrors ==
    DecodedReturn =>
        \A k \in 1..Len(flow.info) :
            StringAt(k) =>
                IF Len(flow.info) = 1 THEN flow.ret = flow.info[k].value
                ELSE flow.ret.results[k] = flow.info[k].value
\* What the code guarantees: a string that is the only return value is
\* decoded to itself, and a string inside a tuple is decoded to the empty
\* string.
C32_OnlySingleStringDecodes ==
    DecodedReturn =>
        \A k \in 1..Len(flow.info) :
            StringAt(k) =>
                IF Len(flow.info) = 1 THEN flow.ret = flow.info[k].value
                ELSE flow.ret.results[k] = Text(<<>>)
\* A tuple whose second element is a two-byte string has been decoded, and
\* the string has come out empty.
C32_Reached ==
    /\ DecodedReturn
    /\ Len(flow.info) = 3
    /\ Len(flow.info[2].value.text) = MaxTextLen
    /\ flow.ret.results[2] = Text(<<>>)
\* A string that is the only return value has been decoded to itself.
C32_ReachedSingle ==
    /\ DecodedReturn
    /\ Len(flow.info) = 1
    /\ Len(flow.info[1].value.text) = MaxTextLen
    /\ flow.ret = flow.info[1].value

(***************************************************************************)
(* Order of the per-id loads of one reload (checked under Spec).           *)
(***************************************************************************)
\* A loadAllDecks that went to the ledger, and the per-id load it is
\* suspended in (at one of the awaits of loadDeck).
Reloading == flow.op = "loadAllDecks" /\ flow.pc # "idle" /\ ~obs.hit
LoadInFlight == flow.pc \in {"awaitInfo", "awaitVersion", "awaitFetch"}
\* The ids whose load has been entered so far, in the order they were.
Entered == InfoReadIds(obs.reads)
\* Every getActiveVersion read directly follows the getContentInfo read of the
\* same id.
VersionFollowsInfo ==
    \A i \in 1..Len(obs.reads) :
        obs.reads[i].method = "getActiveVersion" =>
            /\ i > 1
            /\ obs.reads[i - 1] = [method |-> "getContentInfo", id |-> obs.reads[i].id]
\* The reads and fetches issued in this step belong to the id the loop is at.
IssuedForCurrent ==
    /\ Len(obs.reads') > Len(obs.reads) =>
           obs.reads'[Len(obs.reads')].id = flow'.id
    /\ Len(obs.reads') > Len(obs.reads) /\ IsInfoRead(obs.reads'[Len(obs.reads')]) =>
           ~LoadInFlight

\* C33: within one loadAllDecks reload the per-id loads run one after another
\* in the order of KNOWN_CONTENT_IDS: the ids entered so far are a prefix of
\* the known ids, the load in flight is that of the last id entered, and the
\* load of the next id is entered only when no load is in flight.
C33_SequentialLoads ==
    /\ [](Reloading =>
            /\ Len(Entered) <= Len(KNOWN_CONTENT_IDS)
            /\ Entered = SubSeq(KNOWN_CONTENT_IDS, 1, Len(Entered))
            /\ VersionFollowsInfo
            /\ LoadInFlight =>
                   /\ flow.idx = Len(Entered)
                   /\ flow.id = KNOWN_CONTENT_IDS[flow.idx]
            /\ flow.pc = "loop" => flow.idx = Len(Entered) + 1
            /\ flow.pc = "done" => Len(Entered) = Len(KNOWN_CONTENT_IDS))
    /\ [][Reloading' => IssuedForCurrent]_vars

\* The load of the last known id is in flight after the earlier ones
\* completed, one of them with a failure.
C33_Witness ==
    /\ Reloading
    /\ LoadInFlight
    /\ flow.pc = "awaitFetch"
    /\ flow.idx = Len(KNOWN_CONTENT_IDS)
    /\ Entered = KNOWN_CONTENT_IDS
    /\ obs.envFailed # {}
    /\ Len(flow.decks) = Len(KNOWN_CONTENT_IDS) - 2

(***************************************************************************)
(* The deck cache and per-user ownership (checked under SpecOwned).        *)
(***************************************************************************)
\* The fields of a deck that speak of one user's ownership.
OwnershipFields == {"balance"}
Shared(decks) ==
    \A i \in 1..Len(decks) : DOMAIN decks[i] \cap OwnershipFields = {}
\* The deck lists stored in localStorage.
CachedLists ==
    {localStorage[k].decks :
        k \in {key \in DOMAIN localStorage :
                   localStorage[key] \notin {Absent, Unparsable}}}
\* A step of the balance loop of loadOwnedDecks.
BalanceStep == flow.pc \in {"ownLoop", "awaitBalance"}

\* C34: no deck-cache entry ever holds a per-user balance; loadOwnedDecks
\* attaches the balance to copies it returns, leaving the list it got from
\* loadAllDecks and localStorage as they were; the list loadAllDecks hands
\* back, from the cache or from the ledger, has no ownership field.
C34_CacheHoldsSharedDataOnly ==
    /\ [](/\ \A decks \in CachedLists : Shared(decks)
          /\ flow.op = "loadOwnedDecks" => Shared(flow.allDecks))
    /\ [][BalanceStep =>
             /\ localStorage' = localStorage
             /\ flow'.allDecks = flow.allDecks]_vars

\* loadOwnedDecks has returned a deck with its balance after a cache hit, and
\* the entry it hit is still stored.
C34_Witness ==
    /\ ReturnedOwned
    /\ obs.hit
    /\ Len(flow.ret) > 0
    /\ "balance" \in DOMAIN flow.ret[1]
    /\ CachedLists # {}
    /\ localStorage[cacheKeyOf(variant, flow.walletAddress)] = obs.entry

(***************************************************************************)
(* Invalidation against a load in flight (checked under Spec).             *)
(***************************************************************************)
\* clearDeckCache ran while the loadAllDecks in flight was suspended in its
\* reload, and it covered the scope of that load.
ClearedInFlight ==
    /\ flow.op = "loadAllDecks"
    /\ flow.pc = "loop"
    /\ obs.last = "clear"
    /\ \/ variant = "legacy"
       \/ obs.clearArg = NULL
       \/ obs.clearArg = flow.walletAddress
\* The cache entry of the scope of the load in flight.
ScopeEntry == localStorage[cacheKeyOf(variant, flow.walletAddress)]

\* C40: a loadAllDecks that was suspended in its reload when clearDeckCache
\* ran for its scope writes no cache entry afterwards: the entry of the scope
\* is absent when that load returns.
C40_ClearNotUndone ==
    [][ClearedInFlight => localStorage'[cacheKeyOf(variant, flow.walletAddress)] = Absent]_vars

\* The load in flight was cleared under and has stored its list all the same.
C40_Reached ==
    /\ ReturnedAll
    /\ ~obs.hit
    /\ flow.useCache
    /\ obs.wrote = "ok"
    /\ obs.before[cacheKeyOf(variant, flow.walletAddress)] = Absent
    /\ clears > 0
    /\ ScopeEntry = obs.entry
    /\ ScopeEntry # Absent

(***************************************************************************)
(* The callers of an established connection (src/src/wallet-manager.js):   *)
(* getContract and the bridging signer's signMessage, next to getSigner,   *)
(* signTransaction, disconnect and connectToChain.                         *)
(***************************************************************************)
CONTRACT_ADDRESS == "0xBFF26E227Cb5fb0Feb0D18250C0a655A6066C865"

\* new ethers.Contract(CONTRACT_ADDRESS, abi, runner)
Contract(runner) == [contract |-> CONTRACT_ADDRESS, runner |-> runner]

\* getContract(abi) up to await this.getSigner(): null when not connected, a
\* throw when window.ethers is missing; getSigner runs up to its own await.
getContract ==
    /\ CanCall
    /\ wallet.impl = "unified"
    /\ LET entered == [wallet EXCEPT !.started = @ + 1, !.last = "getContract",
                                     !.wop = NewOp("getContract", NULL)]
       IN wallet' =
            IF ~isConnected(wallet)
            THEN [entered EXCEPT !.wop = [@ EXCEPT !.pc = "done", !.ret = Null]]
            ELSE IF ~wallet.ethers
            THEN [entered EXCEPT !.wop = [@ EXCEPT
                     !.pc = "done", !.ret = Error("ethers.js not loaded")]]
            ELSE [entered EXCEPT !.wop = [@ EXCEPT
                     !.pc = "awaitSigner",
                     !.queried = IF wallet.ethereum THEN {"eth_accounts"} ELSE {}]]
    /\ Frame

\* await this.getSigner() settles: the contract is built around the signer
\* of the injected provider's first account or around the bridging signer.
signerSettles ==
    /\ wallet.wop.pc = "awaitSigner"
    /\ \E o \in (IF wallet.ethereum THEN EthAccountsOutcomes ELSE {Rejected}) :
        LET seen == [wallet EXCEPT !.wop.ethAccounts = o]
            custom == customSigner(seen)
        IN wallet' =
             IF o.ok /\ hasAccounts(o.value)
             THEN [seen EXCEPT !.wop = [@ EXCEPT
                      !.pc = "done",
                      !.ret = Contract([signer |-> "JsonRpcSigner",
                                        account |-> o.value.accounts[1]])]]
             ELSE [custom EXCEPT !.wop.ret = Contract(custom.wop.ret)]
    /\ Frame

\* signMessage(message) of a signer getSigner has returned, up to
\* await import('@polkadot/util').
signMessage ==
    /\ CanCall
    /\ wallet.impl = "unified"
    /\ wallet.provider # Null
    /\ wallet' = [wallet EXCEPT
           !.started = @ + 1, !.last = "signMessage",
           !.wop = [NewOp("signMessage", NULL) EXCEPT !.pc = "awaitImport"]]
    /\ Frame

\* The import settles: this.walletManager.injector.signer.signRaw is called,
\* which throws when the injector is gone.
importSettles ==
    /\ wallet.wop.pc = "awaitImport"
    /\ wallet' =
          IF wallet.injector = Null
          THEN [wallet EXCEPT !.wop = [@ EXCEPT !.pc = "done",
                                                !.ret = Error("TypeError")]]
          ELSE [wallet EXCEPT !.wop = [@ EXCEPT !.pc = "awaitSignRaw",
                                                !.queried = {"signRaw"}]]
    /\ Frame

\* await signRaw(...) settles: the signature is returned, or the rejection
\* (the user refused) leaves signMessage.
signRawSettles ==
    /\ wallet.wop.pc = "awaitSignRaw"
    /\ \E ok \in BOOLEAN :
        wallet' = [wallet EXCEPT !.wop = [@ EXCEPT
                      !.pc = "done",
                      !.ret = IF ok THEN [signature |-> "0x5167"]
                              ELSE Error("Cancelled")]]
    /\ Frame

\* A page whose manager is new, or is connected and has handed out its
\* bridging signer.
InitCallers ==
    /\ contract = NoContract
    /\ variant = "scoped"
    /\ localStorage = [k \in StorageKeys |-> Absent]
    /\ now = 0
    /\ ticks = 0
    /\ faults = 0
    /\ calls = 0
    /\ clears = 0
    /\ wallet \in
         {[NoWallet EXCEPT !.impl = "unified", !.ethereum = e, !.ethers = l] :
             e \in BOOLEAN, l \in BOOLEAN}
         \cup
         {[NoWallet EXCEPT
              !.impl = "unified", !.ethereum = e, !.ethers = TRUE,
              !.api = Connection(1), !.dials = 1,
              !.selectedAccount = [address |-> "5GrwvaEF"],
              !.injector = [injectorOf |-> "5GrwvaEF"],
              !.evmAddress = substrateToEvm("5GrwvaEF"),
              !.provider = [JsonRpcProvider |-> MOONBASE_ALPHA_RPC]] :
              e \in BOOLEAN}
    /\ flow = Caller({BareTransaction})
    /\ obs = IdleObs

NextCallers ==
    \/ connectToChain
    \/ chainSettles
    \/ setupProvider
    \/ web3FromAddressSettles
    \/ disconnect
    \/ getSigner
    \/ ethAccountsSettles
    \/ getContract
    \/ signerSettles
    \/ signMessage
    \/ importSettles
    \/ signRawSettles
    \/ signTransaction
    \/ populateSettles
    \/ signAndSendRejects
    \/ statusReport

SpecCallers == InitCallers /\ [][NextCallers]_vars

\* A step of one of the callers of the connection.
CallerStep ==
    \/ wallet'.last = "disconnect" /\ wallet.last # "disconnect"
    \/ wallet'.wop.op \in {"getSigner", "getContract", "signMessage", "signTransaction"}
\* A connectToChain called after a disconnect, a connection being established.
ReconnectAfterDisconnect ==
    /\ wallet.wop.op = "connectToChain"
    /\ wallet.wop.apiAtCall # Null
    /\ wallet.wop.managerAtCall.selectedAccount = Null

\* C35: once the connection is established no caller clears or replaces it:
\* every step of disconnect, getSigner, getContract, signMessage and
\* signTransaction leaves the manager's connection reference as it was, and
\* a connectToChain after a disconnect returns that same connection without
\* dialling.
C35_ConnectionSharedReadOnly ==
    /\ [][wallet.api # Null => wallet'.api = wallet.api]_vars
    /\ [][CallerStep => wallet'.api = wallet.api /\ wallet'.dials = wallet.dials]_vars
    /\ [](ReconnectAfterDisconnect =>
             /\ wallet.wop.pc = "done"
             /\ wallet.wop.ret = wallet.wop.apiAtCall
             /\ wallet.api = wallet.wop.apiAtCall
             /\ wallet.dials = wallet.wop.dialsAtCall)

\* The connected page was disconnected and then reconnected: the one
\* connection it had is returned.
C35_Witness ==
    /\ ReconnectAfterDisconnect
    /\ wallet.started = 2
    /\ wallet.dials = 1
    /\ wallet.provider # Null
    /\ wallet.injector = Null
    /\ wallet.wop.ret = Connection(1)

(***************************************************************************)
(* connect() and autoConnect() await by await, with the constructor's      *)
(* autoConnect and a click on Connect running against each other and       *)
(* against disconnect (src/src/wallet-manager.js and part_002).  In the    *)
(* specification of this section `flow` holds the call of each caller.     *)
(***************************************************************************)
\* Who calls: the constructor's init() and the Connect button.
Callers == {"init", "click"}

\* A call not made yet.  `dial` is the dial this call made, `conn` what
\* connectToChain returned to it, `before` the manager and the flag at the
\* call, `solo` whether nothing else was in flight while it ran.
IdleCall ==
    [op |-> "none", pc |-> "idle", ret |-> Undefined, account |-> Null,
     dial |-> 0, conn |-> Null, failedAt |-> "none", before |-> Undefined,
     solo |-> TRUE]
InFlight(c) == c.pc \notin {"idle", "done"}

\* setupProvider(account) / selectAccount(account) up to its first await:
\* the account is selected.
selectAccount(w, c) ==
    [w |-> [w EXCEPT !.selectedAccount = [address |-> c.account]],
     c |-> [c EXCEPT !.pc = IF w.impl = "unified" THEN "awaitInjector"
                            ELSE "awaitList"]]

\* What follows await this.connectToChain(): setupProvider in
\* src/src/wallet-manager.js, web3Enable in part_002.
afterConnectToChain(w, c) ==
    IF w.impl = "unified" THEN selectAccount(w, c)
    ELSE [w |-> w, c |-> [c EXCEPT !.pc = "awaitEnable"]]

\* await this.connectToChain(): the connection there is is returned, or a
\* WsProvider is made (the dial) and ApiPromise.create awaited.
awaitConnectToChain(w, c) ==
    IF alreadyConnected(w.api)
    THEN afterConnectToChain(w, [c EXCEPT !.conn = w.api])
    ELSE [w |-> [w EXCEPT !.dials = @ + 1],
          c |-> [c EXCEPT !.pc = "awaitCreate", !.dial = w.dials + 1]]

\* The call ends without connecting: connect() returns false, autoConnect()
\* returns after removing the flag.
failedCall(c, at) ==
    [c EXCEPT !.pc = "done", !.failedAt = at,
              !.ret = IF c.op = "connect" THEN Bool(FALSE) ELSE Undefined]
flagAfterFailure(impl, c, store) ==
    IF c.op = "autoConnect"
    THEN [store EXCEPT ![walletStorageKey(impl)] = Absent]
    ELSE store

\* A caller enters connect() or autoConnect(): the code up to the first
\* await (web3Enable, or connectToChain in part_002).
enter(t, op) ==
    LET c0 == [IdleCall EXCEPT
                  !.op = op,
                  !.before = [manager |-> ManagerFields(wallet),
                              flag |-> localStorage[walletStorageKey(wallet.impl)]],
                  !.solo = \A u \in Callers : ~InFlight(flow[u])]
        w0 == [wallet EXCEPT !.last = op, !.started = @ + 1]
        r == IF wallet.impl = "unified"
             THEN [w |-> w0, c |-> [c0 EXCEPT !.pc = "awaitEnable"]]
             ELSE awaitConnectToChain(w0, c0)
    IN /\ flow[t].pc = "idle"
       /\ wallet' = r.w
       /\ flow' = [u \in Callers |->
                      IF u = t THEN r.c
                      ELSE [flow[u] EXCEPT !.solo = @ /\ ~InFlight(flow[u])]]
       /\ UNCHANGED <<contract, variant, localStorage, now, ticks, faults, calls,
                      clears, obs>>

\* The constructor's init(): autoConnect() when the flag is stored, and
\* nothing otherwise.
autoConnect ==
    IF localStorage[walletStorageKey(wallet.impl)] = StoredTrue
    THEN enter("init", "autoConnect")
    ELSE /\ flow["init"].pc = "idle"
         /\ flow' = [flow EXCEPT !["init"] = [IdleCall EXCEPT !.op = "init",
                                                              !.pc = "done"]]
         /\ wallet' = [wallet EXCEPT !.last = "init"]
         /\ UNCHANGED <<contract, variant, localStorage, now, ticks, faults,
                        calls, clears, obs>>
\* A click on Connect, on the page the constructor has set up.
clickConnect ==
    /\ flow["init"].pc # "idle"
    /\ enter("click", "connect")

\* A step of the call of caller t.
Resume(t, w, c, store) ==
    /\ wallet' = w
    /\ flow' = [flow EXCEPT ![t] = c]
    /\ localStorage' = store
    /\ UNCHANGED <<contract, variant, now, ticks, faults, calls, clears, obs>>

\* await web3Enable(APP_NAME) settles: a rejection, no extension, or some.
enableSettles ==
    \E t \in Callers, o \in {"rejected", "none", "some"} :
        /\ flow[t].pc = "awaitEnable"
        /\ IF o = "some"
           THEN Resume(t, wallet, [flow[t] EXCEPT !.pc = "awaitAccounts"], localStorage)
           ELSE Resume(t, wallet,
                       failedCall(flow[t], IF o = "none" THEN "noExtension"
                                           ELSE "awaitEnable"),
                       flagAfterFailure(wallet.impl, flow[t], localStorage))

\* await web3Accounts() settles: a rejection, no account, or a first account.
accountsSettles ==
    \E t \in Callers, o \in {"rejected", "none"} \cup {"5GrwvaEF", "5FHneW46"} :
        /\ flow[t].pc = "awaitAccounts"
        /\ IF o \in {"rejected", "none"}
           THEN Resume(t, wallet,
                       failedCall(flow[t], IF o = "none" THEN "noAccounts"
                                           ELSE "awaitAccounts"),
                       flagAfterFailure(wallet.impl, flow[t], localStorage))
           ELSE LET c == [flow[t] EXCEPT !.account = o]
                    r == IF wallet.impl = "unified"
                         THEN awaitConnectToChain(wallet, c)
                         ELSE selectAccount(wallet, c)
                IN Resume(t, r.w, r.c, localStorage)

\* One of the awaits of the connectToChain a call is in settles: the
\* connection made is assigned as soon as ApiPromise.create resolves; a
\* rejection is thrown on to the catch of connect()/autoConnect().
connectToChainSettles ==
    \E t \in Callers, ok \in BOOLEAN :
        LET c == flow[t]
            w == IF c.pc = "awaitCreate"
                 THEN [wallet EXCEPT !.api = Connection(c.dial)]
                 ELSE wallet
            pc == nextAwait(wallet.impl, c.pc)
            r == IF pc = "done"
                 THEN afterConnectToChain(w, [c EXCEPT !.conn = w.api])
                 ELSE [w |-> w, c |-> [c EXCEPT !.pc = pc]]
        IN /\ c.pc \in {"awaitCreate", "awaitReady", "awaitChain", "awaitVersion"}
           /\ IF ok
              THEN Resume(t, r.w, r.c, localStorage)
              ELSE Resume(t, wallet, failedCall(c, c.pc),
                          flagAfterFailure(wallet.impl, c, localStorage))

\* this.accounts = await web3Accounts() in selectAccount of part_002.
listSettles ==
    \E t \in Callers, ok \in BOOLEAN :
        /\ flow[t].pc = "awaitList"
        /\ IF ok
           THEN Resume(t, wallet, [flow[t] EXCEPT !.pc = "awaitInjector"], localStorage)
           ELSE Resume(t, wallet, failedCall(flow[t], "awaitList"),
                       flagAfterFailure(wallet.impl, flow[t], localStorage))

\* await web3FromAddress(account.address) settles: the injector and the
\* bridged address are set, connect() stores the flag and returns true; a
\* rejection goes to the catch.
injectorSettles ==
    \E t \in Callers, ok \in BOOLEAN :
        LET c == flow[t]
        IN /\ c.pc = "awaitInjector"
           /\ IF ok
              THEN Resume(t,
                          [wallet EXCEPT
                              !.injector = [injectorOf |-> c.account],
                              !.evmAddress = substrateToEvm(c.account)],
                          [c EXCEPT !.pc = "done",
                                    !.ret = IF c.op = "connect" THEN Bool(TRUE)
                                            ELSE Undefined],
                          IF c.op = "connect"
                          THEN [localStorage EXCEPT
                                   ![walletStorageKey(wallet.impl)] = StoredTrue]
                          ELSE localStorage)
              ELSE Resume(t, wallet, failedCall(c, "awaitInjector"),
                          flagAfterFailure(wallet.impl, c, localStorage))

\* A page is loaded, the flag stored by an earlier visit or not.
InitConnect ==
    /\ contract = NoContract
    /\ variant = "scoped"
    /\ localStorage \in
          {[k \in StorageKeys |-> IF k = <<STORAGE_KEY>> THEN flag ELSE Absent] :
              flag \in {Absent, StoredTrue}}
    /\ now = 0
    /\ ticks = 0
    /\ faults = 0
    /\ calls = 0
    /\ clears = 0
    /\ wallet \in {[NoWallet EXCEPT !.impl = impl] : impl \in {"unified", "polkadot"}}
    /\ flow = [t \in Callers |-> IdleCall]
    /\ obs = IdleObs

NextConnect ==
    \/ autoConnect
    \/ clickConnect
    \/ enableSettles
    \/ accountsSettles
    \/ connectToChainSettles
    \/ listSettles
    \/ injectorSettles
    \/ disconnect

SpecConnect == InitConnect /\ [][NextConnect]_vars

\* Every call made has finished.
Quiet == \A t \in Callers : ~InFlight(flow[t])
\* The manager's flag in localStorage.
Flag == localStorage[walletStorageKey(wallet.impl)]

\* C36: when disconnect() was the last thing called and the calls of
\* connect()/autoConnect() that were suspended meanwhile have finished, the
\* selected account, the injector and the bridged address are null and the
\* flag is absent.
C36_DisconnectWins ==
    (wallet.last = "disconnect" /\ Quiet) =>
        /\ wallet.selectedAccount = Null
        /\ wallet.injector = Null
        /\ wallet.evmAddress = Null
        /\ Flag = Absent

\* disconnect() ran while connect() was suspended at web3FromAddress; the
\* call went on to set the injector and the bridged address and to store the
\* flag.
C36_Reached ==
    /\ wallet.last = "disconnect"
    /\ Quiet
    /\ flow["click"].ret = Bool(TRUE)
    /\ wallet.selectedAccount = Null
    /\ wallet.injector # Null
    /\ wallet.evmAddress # Null
    /\ Flag = StoredTrue

\* The call of caller t has ended without connecting, nothing else having
\* run meanwhile: no other call was in flight and disconnect was not called.
FailedAlone(t) ==
    /\ flow[t].pc = "done"
    /\ flow[t].failedAt # "none"
    /\ flow[t].solo
    /\ wallet.last = flow[t].op
\* The account, the injector and the bridged address are those at the call.
AsBefore(t) ==
    /\ wallet.selectedAccount = flow[t].before.manager.selectedAccount
    /\ wallet.injector = flow[t].before.manager.injector
    /\ wallet.evmAddress = flow[t].before.manager.evmAddress
\* The steps at which no account has been selected yet.
BeforeSelection(impl) ==
    IF impl = "unified"
    THEN {"awaitEnable", "noExtension", "awaitAccounts", "noAccounts",
          "awaitCreate", "awaitReady", "awaitChain", "awaitVersion"}
    ELSE {"awaitEnable", "noExtension", "awaitAccounts", "noAccounts",
          "awaitCreate", "awaitChain", "awaitVersion"}

\* C37: after a connect() that returned false or an autoConnect() that
\* failed at any step, the selected account, the injector and the bridged
\* address are what they were before the call; from a disconnected wallet no
\* account is selected, isConnected() is false and the flag is not 'true'.
C37_FailedConnectLeavesDisconnected ==
    \A t \in Callers :
        FailedAlone(t) =>
            /\ AsBefore(t)
            /\ flow[t].before.manager.selectedAccount = Null =>
                   /\ wallet.selectedAccount = Null
                   /\ ~isConnected(wallet)
                   /\ Flag # StoredTrue

\* The failures before the account is selected do leave the wallet as it
\* was, and no failure leaves the flag stored by the failed call.
C37_HoldsBeforeSelection ==
    \A t \in Callers :
        FailedAlone(t) =>
            /\ flow[t].failedAt \in BeforeSelection(wallet.impl) =>
                   AsBefore(t) /\ ~(isConnected(wallet) /\ ~isConnected(flow[t].before.manager))
            /\ Flag = StoredTrue => flow[t].before.flag = StoredTrue /\ flow[t].op = "connect"

\* connect() on a new page returned false because web3FromAddress was
\* rejected; the account stays selected and isConnected() is true.
C37_Reached ==
    /\ FailedAlone("click")
    /\ flow["click"].failedAt = "awaitInjector"
    /\ flow["click"].ret = Bool(FALSE)
    /\ flow["click"].before.manager.selectedAccount = Null
    /\ wallet.selectedAccount # Null
    /\ wallet.injector = Null
    /\ isConnected(wallet)

\* autoConnect() failed at the account list of selectAccount.
C37_ReachedAutoConnect ==
    /\ FailedAlone("init")
    /\ flow["init"].failedAt = "awaitList"
    /\ wallet.selectedAccount # Null
    /\ Flag = Absent

\* The awaits of connectToChain, and a call that ended in its catch.
ChainAwaits == {"awaitCreate", "awaitReady", "awaitChain", "awaitVersion"}
FailedInChain(c) == c.pc = "done" /\ c.failedAt \in ChainAwaits
\* connectToChain has returned a connection to the call.
GotConnection(c) == c.conn # Null

\* C38: with no connectToChain failing, the manager dials its endpoint at
\* most once however the calls interleave, and every caller of
\* connectToChain gets the same connection.
C38_SingleDial ==
    (\A t \in Callers : flow[t].failedAt \notin ChainAwaits) =>
        /\ wallet.dials <= 1
        /\ \A t, u \in Callers :
               GotConnection(flow[t]) /\ GotConnection(flow[u]) => flow[t].conn = flow[u].conn

\* The constructor's autoConnect and a click on Connect each dialled, and
\* got different connections.
C38_Reached ==
    /\ \A t \in Callers : flow[t].failedAt = "none" /\ flow[t].dial > 0
    /\ wallet.dials = 2
    /\ GotConnection(flow["init"])
    /\ GotConnection(flow["click"])
    /\ flow["init"].conn # flow["click"].conn

\* No call but that of caller t has dialled.
OnlyDialler(t) == \A u \in Callers \ {t} : flow[u].dial = 0

\* C39: after a connectToChain that failed at the dial, at the readiness
\* handshake or at the chain-label or node-version query, no other call
\* having dialled, the manager's connection reference is null, and a later
\* call that gets past connectToChain has dialled again.
C39_FailedChainRetainsNone ==
    /\ \A t \in Callers :
           (FailedInChain(flow[t]) /\ OnlyDialler(t)) => wallet.api = Null
    /\ (FailedInChain(flow["init"]) /\ flow["click"].solo /\ GotConnection(flow["click"])) =>
           flow["click"].dial > 0

\* A failed dial does leave no connection.
C39_HoldsForDial ==
    \A t \in Callers :
        (FailedInChain(flow[t]) /\ flow[t].failedAt = "awaitCreate"
            /\ OnlyDialler(t)) =>
            wallet.api = Null

\* autoConnect failed at the chain-label query after the dial; the
\* connection it made was kept, and the connect() that followed returned
\* true on it without dialling.
C39_Reached ==
    /\ FailedInChain(flow["init"])
    /\ flow["init"].failedAt = "awaitChain"
    /\ flow["click"].solo
    /\ flow["click"].ret = Bool(TRUE)
    /\ flow["click"].dial = 0
    /\ flow["click"].conn = Connection(1)
    /\ wallet.dials = 1
    /\ isConnected(wallet)

====
